---------------------------- MODULE Spec2Model ----------------------------
(***************************************************************************)
(* A model of the CSP engine of MinesweeperSolver: Variable, Constraint,   *)
(* CSP and the backtracking routine BT.                                    *)
(*                                                                         *)
(* Python objects are records held in heaps indexed by small integers (the *)
(* object identities): `variables` holds the Variable objects and          *)
(* `constraints` the Constraint objects.  Python lists are sequences;      *)
(* list positions are counted from 1 here and from 0 in the source.        *)
(***************************************************************************)
EXTENDS Integers, Sequences, FiniteSets, TLC

VARIABLES
    variables,     \* heap of Variable objects: id -> [dom, curdom, assignedValue]
    constraints,   \* heap of Constraint objects: id -> [scope, sat_tuples, sup_tuples]
    csp,           \* the CSP object: [vars, cons, vars_to_cons]
    last,          \* the most recent call on an object: its name, arguments and the
                   \* state it was made in
    unasgn_vars,   \* BT.unasgn_vars
    nDecisions,    \* BT.nDecisions
    nPrunings,     \* BT.nPrunings
    pc,            \* where the search stands
    stack,         \* the active bt_recurse calls, outermost first
    status,        \* the local `status` of bt_search / value returned by bt_recurse
    prunings,      \* the local `prunings` of bt_search: what the root call pruned
    printed,       \* the outcome lines bt_search has printed
    returned,      \* the value bt_search returned to its caller
    held,          \* the list a caller holds after a call of a CSP accessor, if any
    game           \* the Minesweeper object

vars == <<variables, constraints, csp, last, unasgn_vars, nDecisions, nPrunings,
          pc, stack, status, prunings, printed, returned, held, game>>

-----------------------------------------------------------------------------
(* Bounds *)

\* Largest domain value; values are 0 .. MaxVal.
MaxVal == 2
\* Longest permanent domain of the Variable under test.
MaxDomLen == 3

\* Most variables of a CSP under search.
MaxVars == 3
\* Most constraints of a CSP under search.
MaxCons == 2
\* Longest scope of a constraint of a CSP under search.
MaxArity == 2
\* Most satisfying tuples of a constraint of a CSP under search.
MaxTuples == 3
\* Number of values of each variable of a CSP under search: 0, 1, ...
DomSize == 2
\* Longest support list of the Constraint under test.
MaxSupLen == 2
\* Longest constraint list, and longest index entry, of the CSP under
\* construction.
MaxListLen == 2
\* Most variables of a generated CSP searched by bt_search_MS.
MSVars == 2
\* Rows, columns and mines of the Minesweeper board (16, 16 and 40 in
\* game.py, where the comment says they can be changed).
BoardRows == 1
BoardCols == 4
NumMines == 1
\* Most tuples given to one call of add_satisfying_tuples on the Constraint
\* under test.
MaxCall == 2
\* Most different tuples added to the Constraint under test by calls that are
\* given tuples of any length.
MaxSat == 2

Values == 0 .. MaxVal

\* Python's None: the content of an empty assignment slot.  It is no member
\* of Values.
None == -1

-----------------------------------------------------------------------------
(* Sequence helpers *)

Range(s) == {s[i] : i \in 1 .. Len(s)}

\* All sequences over S of length at most n.
SeqsUpTo(S, n) == UNION {[1 .. k -> S] : k \in 0 .. n}

-----------------------------------------------------------------------------
(* class Variable *)

\* Variable.__init__: a copy of the domain, all flags True, no assignment.
NewVariable(domain) ==
    [dom |-> domain,
     curdom |-> [i \in 1 .. Len(domain) |-> TRUE],
     assignedValue |-> None]

\* Variable.domain
domain(v) == v.dom

\* Variable.value_index: list.index, the first position holding the value.
value_index(v, value) ==
    CHOOSE i \in 1 .. Len(v.dom) :
        /\ v.dom[i] = value
        /\ \A j \in 1 .. (i - 1) : v.dom[j] # value

\* Variable.prune_value
prune_value(v, value) ==
    [v EXCEPT !.curdom[value_index(v, value)] = FALSE]

\* Variable.unprune_value
unprune_value(v, value) ==
    [v EXCEPT !.curdom[value_index(v, value)] = TRUE]

\* Variable.get_assigned_value
get_assigned_value(v) == v.assignedValue

\* Variable.is_assigned
is_assigned(v) == v.assignedValue # None

\* the values of dom whose flag is set, in domain order
RECURSIVE FlaggedFrom(_, _)
FlaggedFrom(v, i) ==
    IF i > Len(v.dom) THEN <<>>
    ELSE (IF v.curdom[i] THEN <<v.dom[i]>> ELSE <<>>) \o FlaggedFrom(v, i + 1)

\* cur_domain that lists the flagged values even when the variable is assigned
cur_domain_flags_only(v) == FlaggedFrom(v, 1)

\* Variable.cur_domain
cur_domain(v) ==
    IF is_assigned(v) THEN <<get_assigned_value(v)>>
    ELSE FlaggedFrom(v, 1)

\* in_cur_domain that reads the flag even when the variable is assigned
in_cur_domain_flag_only(v, value) ==
    IF value \notin Range(v.dom) THEN FALSE
    ELSE v.curdom[value_index(v, value)]

\* Variable.in_cur_domain
in_cur_domain(v, value) ==
    IF value \notin Range(v.dom) THEN FALSE
    ELSE IF is_assigned(v) THEN value = get_assigned_value(v)
    ELSE v.curdom[value_index(v, value)]

\* cur_domain_size that counts the flags even when the variable is assigned
cur_domain_size_flags_only(v) ==
    Cardinality({i \in 1 .. Len(v.curdom) : v.curdom[i]})

\* Variable.cur_domain_size
cur_domain_size(v) ==
    IF is_assigned(v) THEN 1
    ELSE Cardinality({i \in 1 .. Len(v.curdom) : v.curdom[i]})

\* restore_curdom whose loop stops one flag short
restore_curdom_short(v) ==
    [v EXCEPT !.curdom = [i \in 1 .. Len(v.curdom) |->
                              IF i < Len(v.curdom) THEN TRUE ELSE v.curdom[i]]]

\* Variable.restore_curdom
restore_curdom(v) ==
    [v EXCEPT !.curdom = [i \in 1 .. Len(v.curdom) |-> TRUE]]

\* Variable.assign: the guard that rejects the call
assign_rejected(v, value) ==
    is_assigned(v) \/ ~in_cur_domain(v, value)

\* assign that does not look at the current domain
assign_unchecked(v, value) ==
    IF is_assigned(v) THEN v
    ELSE [v EXCEPT !.assignedValue = value]

\* assign that also clears the flag of every other value
assign_pruning_others(v, value) ==
    IF assign_rejected(v, value) THEN v
    ELSE [v EXCEPT !.assignedValue = value,
                   !.curdom = [i \in DOMAIN v.curdom |-> v.curdom[i] /\ v.dom[i] = value]]

\* Variable.assign
assign(v, value) ==
    IF assign_rejected(v, value) THEN v
    ELSE [v EXCEPT !.assignedValue = value]

\* unassign that leaves the assignment slot as it is
unassign_noop(v) == v

\* Variable.unassign
unassign(v) ==
    IF ~is_assigned(v) THEN v
    ELSE [v EXCEPT !.assignedValue = None]

-----------------------------------------------------------------------------
(* class Constraint *)

\* Constraint.__init__: a copy of the scope, no tuples.
NewConstraint(scope) ==
    [scope |-> scope, sat_tuples |-> {}, sup_tuples |-> <<>>]

\* Constraint.add_satisfying_tuples, inner loop: tuple t is appended to the
\* support list of (scope[i], t[i]) for the positions i, i+1, ... of t.  At a
\* position past the end of the scope, self.scope[i] raises IndexError and
\* the loop is left with what it has done so far.
RECURSIVE AddSupports(_, _, _, _)
AddSupports(sup, c, t, i) ==
    IF i > Len(t) THEN sup
    ELSE IF i > Len(c.scope) THEN sup
    ELSE LET key == <<c.scope[i], t[i]>>
             s1  == IF key \in DOMAIN sup THEN sup ELSE sup @@ (key :> <<>>)
         IN  AddSupports([s1 EXCEPT ![key] = Append(@, t)], c, t, i + 1)

\* one iteration of the outer loop that skips a tuple that is not as long as
\* the scope
add_satisfying_tuple_checked(c, t) ==
    IF Len(t) # Len(c.scope) THEN c
    ELSE [c EXCEPT !.sat_tuples = @ \cup {t},
                   !.sup_tuples = AddSupports(@, c, t, 1)]

\* one iteration of the outer loop that keeps only the tuple it is given in
\* the set
add_satisfying_tuple_replacing(c, t) ==
    [c EXCEPT !.sat_tuples = {t},
              !.sup_tuples = AddSupports(@, c, t, 1)]

\* Constraint.add_satisfying_tuples, one iteration of the outer loop.
add_satisfying_tuple(c, t) ==
    [c EXCEPT !.sat_tuples = @ \cup {t},
              !.sup_tuples = AddSupports(@, c, t, 1)]

\* Constraint.add_satisfying_tuples.  The IndexError a tuple longer than the
\* scope raises ends the call: the tuples after it are not looked at.
RECURSIVE add_satisfying_tuples(_, _)
add_satisfying_tuples(c, tuples) ==
    IF tuples = <<>> THEN c
    ELSE IF Len(Head(tuples)) > Len(c.scope) THEN add_satisfying_tuple(c, Head(tuples))
    ELSE add_satisfying_tuples(add_satisfying_tuple(c, Head(tuples)), Tail(tuples))

\* Constraint.get_scope
get_scope(c) == c.scope

\* Constraint.get_unasgn_vars
get_unasgn_vars(vs, c) ==
    SelectSeq(c.scope, LAMBDA x : ~is_assigned(vs[x]))

\* Constraint.get_n_unasgn
get_n_unasgn(vs, c) ==
    Cardinality({i \in 1 .. Len(c.scope) : ~is_assigned(vs[c.scope[i]])})

\* tuple_is_valid that returns after looking at the first position
tuple_is_valid_first_position(vs, c, t) ==
    in_cur_domain(vs[c.scope[1]], t[1])

\* Constraint.tuple_is_valid: every value of t is in the current domain of
\* the scope variable at its position.
tuple_is_valid(vs, c, t) ==
    \A i \in 1 .. Len(c.scope) : in_cur_domain(vs[c.scope[i]], t[i])

\* has_support that is content with a listed tuple, valid or not
has_support_listed(vs, c, var, val) ==
    /\ <<var, val>> \in DOMAIN c.sup_tuples
    /\ c.sup_tuples[<<var, val>>] # <<>>

\* has_support whose loop returns after looking at the first listed tuple
has_support_first_only(vs, c, var, val) ==
    /\ <<var, val>> \in DOMAIN c.sup_tuples
    /\ c.sup_tuples[<<var, val>>] # <<>>
    /\ tuple_is_valid(vs, c, c.sup_tuples[<<var, val>>][1])

\* Constraint.has_support
has_support(vs, c, var, val) ==
    /\ <<var, val>> \in DOMAIN c.sup_tuples
    /\ \E k \in 1 .. Len(c.sup_tuples[<<var, val>>]) :
           tuple_is_valid(vs, c, c.sup_tuples[<<var, val>>][k])

-----------------------------------------------------------------------------
(* class CSP *)

\* CSP.__init__ with no variables
NewCSP == [vars |-> <<>>, cons |-> <<>>, vars_to_cons |-> <<>>]

\* CSP.add_var: the guard that rejects a variable the CSP already has
add_var_rejected(p, v) == v \in DOMAIN p.vars_to_cons

\* CSP.add_var
add_var(p, v) ==
    IF add_var_rejected(p, v) THEN p
    ELSE [p EXCEPT !.vars = Append(@, v),
                   !.vars_to_cons = @ @@ (v :> <<>>)]

\* CSP.add_constraint: the scope holds a variable the CSP does not have
add_constraint_rejected(p, scope) ==
    \E i \in 1 .. Len(scope) : scope[i] \notin DOMAIN p.vars_to_cons

\* CSP.add_constraint, the loop over c.scope from position i on: c is
\* appended to the index entry of each scope variable in turn, and the loop
\* is left (and the method with it) at the first variable the CSP lacks.
RECURSIVE AddToIndex(_, _, _, _)
AddToIndex(index, c, scope, i) ==
    IF i > Len(scope) THEN index
    ELSE IF scope[i] \notin DOMAIN index THEN index
    ELSE AddToIndex([index EXCEPT ![scope[i]] = Append(@, c)], c, scope, i + 1)

\* CSP.add_constraint
add_constraint(p, c, scope) ==
    [p EXCEPT !.vars_to_cons = AddToIndex(@, c, scope, 1),
              !.cons = IF add_constraint_rejected(p, scope) THEN @
                       ELSE Append(@, c)]

\* CSP.get_all_cons
get_all_cons(p) == p.cons

\* CSP.get_cons_with_var
get_cons_with_var(p, var) == p.vars_to_cons[var]

\* CSP.get_all_vars
get_all_vars(p) == p.vars

-----------------------------------------------------------------------------
(* The GAC propagator.  propagators.py is not among the sources; this is the   *)
(* propagator the specification describes: a queue seeded with the constraints *)
(* on the given variable (all constraints at the root); a popped constraint    *)
(* has every unsupported value of every scope variable pruned, each pruning    *)
(* re-enqueues the other constraints on that variable, and the call stops      *)
(* with ok = False as soon as a current domain is empty.                       *)

\* the other constraints on variable v
OtherCons(p, v, c) == SelectSeq(get_cons_with_var(p, v), LAMBDA d : d # c)

\* the loop over the values of v's current domain, for constraint c
RECURSIVE GAC_Values(_, _, _, _, _, _)
GAC_Values(st, p, cs, c, v, vals) ==
    IF vals = <<>> THEN st
    ELSE IF has_support(st.vs, cs[c], v, Head(vals))
    THEN GAC_Values(st, p, cs, c, v, Tail(vals))
    ELSE LET vs1 == [st.vs EXCEPT ![v] = prune_value(@, Head(vals))]
             pr1 == Append(st.prunings, <<v, Head(vals)>>)
         IN  IF cur_domain_size(vs1[v]) = 0
             THEN [st EXCEPT !.ok = FALSE, !.vs = vs1, !.prunings = pr1]
             ELSE GAC_Values([st EXCEPT !.vs = vs1, !.prunings = pr1,
                                        !.queue = @ \o OtherCons(p, v, c)],
                             p, cs, c, v, Tail(vals))

\* the loop over the scope of constraint c, from position i on
RECURSIVE GAC_Scope(_, _, _, _, _)
GAC_Scope(st, p, cs, c, i) ==
    IF ~st.ok \/ i > Len(cs[c].scope) THEN st
    ELSE LET v == cs[c].scope[i]
         IN  GAC_Scope(GAC_Values(st, p, cs, c, v, cur_domain(st.vs[v])),
                       p, cs, c, i + 1)

\* the loop over the queue
RECURSIVE GAC_Queue(_, _, _)
GAC_Queue(st, p, cs) ==
    IF ~st.ok \/ st.queue = <<>> THEN st
    ELSE GAC_Queue(GAC_Scope([st EXCEPT !.queue = Tail(@)], p, cs, Head(st.queue), 1),
                   p, cs)

\* prop_GAC(csp, newVar): [ok, vs, prunings], vs being the variables after the call
prop_GAC(vs, p, cs, newVar) ==
    LET seed == IF newVar = None THEN get_all_cons(p) ELSE get_cons_with_var(p, newVar)
        st   == GAC_Queue([ok |-> TRUE, vs |-> vs, queue |-> seed, prunings |-> <<>>],
                          p, cs)
    IN  [ok |-> st.ok, vs |-> st.vs, prunings |-> st.prunings]

\* the propagator handed to bt_search
propagator(vs, p, cs, newVar) == prop_GAC(vs, p, cs, newVar)

-----------------------------------------------------------------------------
(* class BT *)

\* restoreValues that leaves out the last pair of the list
RECURSIVE restoreValues_but_last(_, _)
restoreValues_but_last(vs, prs) ==
    IF Len(prs) <= 1 THEN vs
    ELSE restoreValues_but_last(
             [vs EXCEPT ![Head(prs)[1]] = unprune_value(@, Head(prs)[2])], Tail(prs))

\* BT.restoreValues
RECURSIVE restoreValues(_, _)
restoreValues(vs, prs) ==
    IF prs = <<>> THEN vs
    ELSE restoreValues([vs EXCEPT ![Head(prs)[1]] = unprune_value(@, Head(prs)[2])],
                       Tail(prs))

\* BT.restore_all_variable_domains, the loop over csp.vars from position i on
RECURSIVE RestoreAllFrom(_, _, _)
RestoreAllFrom(vs, p, i) ==
    IF i > Len(p.vars) THEN vs
    ELSE RestoreAllFrom([vs EXCEPT ![p.vars[i]] = restore_curdom(unassign(@))], p, i + 1)

\* restore_all_variable_domains that unassigns and leaves the flags alone
RECURSIVE restore_all_variable_domains_unassigning(_, _)
restore_all_variable_domains_unassigning(vs, p) ==
    IF p.vars = <<>> THEN vs
    ELSE restore_all_variable_domains_unassigning(
             [vs EXCEPT ![Head(p.vars)] = unassign(@)], [p EXCEPT !.vars = Tail(@)])

\* BT.restore_all_variable_domains
restore_all_variable_domains(vs, p) == RestoreAllFrom(vs, p, 1)

\* BT.extractMRVvar, the scan: mv is the variable kept so far, md its size
RECURSIVE MRVscan(_, _, _, _, _)
MRVscan(vs, list, i, md, mv) ==
    IF i > Len(list) THEN mv
    ELSE IF md < 0 \/ cur_domain_size(vs[list[i]]) < md
    THEN MRVscan(vs, list, i + 1, cur_domain_size(vs[list[i]]), list[i])
    ELSE MRVscan(vs, list, i + 1, md, mv)

\* list.remove that removes nothing
ListRemove_nothing(list, x) == list

\* list.remove: the list without the first occurrence of x
RECURSIVE ListRemove(_, _)
ListRemove(list, x) ==
    IF list = <<>> THEN <<>>
    ELSE IF Head(list) = x THEN Tail(list)
    ELSE <<Head(list)>> \o ListRemove(Tail(list), x)

\* the scan that also takes a variable as large as the one kept so far
RECURSIVE MRVscan_last(_, _, _, _, _)
MRVscan_last(vs, list, i, md, mv) ==
    IF i > Len(list) THEN mv
    ELSE IF md < 0 \/ cur_domain_size(vs[list[i]]) <= md
    THEN MRVscan_last(vs, list, i + 1, cur_domain_size(vs[list[i]]), list[i])
    ELSE MRVscan_last(vs, list, i + 1, md, mv)

\* extractMRVvar that returns the last of the smallest variables
extractMRVvar_last_tie(vs, list) == MRVscan_last(vs, list, 1, -1, None)

\* extractMRVvar that scans the unassigned variables in the order of csp.vars
extractMRVvar_by_insertion(vs, list) ==
    MRVscan(vs, SelectSeq(csp.vars, LAMBDA x : x \in Range(list)), 1, -1, None)

\* BT.extractMRVvar: the variable chosen
extractMRVvar(vs, list) == MRVscan(vs, list, 1, -1, None)

\* restoreUnasgnVar that leaves the list as it is
restoreUnasgnVar_forgotten(list, var) == list

\* BT.restoreUnasgnVar
restoreUnasgnVar(list, var) == Append(list, var)

\* the list of unassigned variables built without looking at is_assigned()
UnassignedOf_everyone(vs, p) == p.vars

\* bt_search, up to the root propagator call: the variables still unassigned
UnassignedOf(vs, p) == SelectSeq(p.vars, LAMBDA x : ~is_assigned(vs[x]))

\* the state of a BT object
btvars == <<unasgn_vars, nDecisions, nPrunings, pc, stack, status, prunings,
            printed, returned>>

\* BT.__init__, and no search under way
BT_init ==
    /\ unasgn_vars = <<>>
    /\ nDecisions = 0
    /\ nPrunings = 0
    /\ pc = "idle"
    /\ stack = <<>>
    /\ status = FALSE
    /\ prunings = <<>>
    /\ printed = <<>>
    /\ returned = None

\* no caller holds a list of the CSP and no game has been created
Alone ==
    /\ held = <<>>
    /\ game = None

\* the innermost active bt_recurse call
Top == stack[Len(stack)]

\* what a bt_recurse call finds when it is entered: the variables and the
\* list of unassigned ones (kept with the call, to compare with at its return)
Entered == [variables |-> variables, unasgn |-> unasgn_vars]

\* bt_search that calls bt_recurse whatever the root propagation reports
bt_search_begin_recursing ==
    /\ pc = "idle"
    /\ LET vs0 == restore_all_variable_domains(variables, csp)
           r   == propagator(vs0, csp, constraints, None)
       IN  /\ variables' = r.vs
           /\ unasgn_vars' = UnassignedOf(vs0, csp)
           /\ nDecisions' = 0
           /\ nPrunings' = Len(r.prunings)
           /\ prunings' = r.prunings
           /\ status' = r.ok
           /\ printed' = IF r.ok THEN <<>> ELSE <<"contradiction at root">>
           /\ pc' = "call"
    /\ stack' = <<>>
    /\ returned' = None
    /\ UNCHANGED <<constraints, csp, last, held, game>>

\* bt_search, from its entry to the branch on the root status: the counters
\* are cleared, every variable is reset, the unassigned list is collected and
\* the propagator is called with no variable.
bt_search_begin ==
    /\ pc = "idle"
    /\ LET vs0 == restore_all_variable_domains(variables, csp)
           r   == propagator(vs0, csp, constraints, None)
       IN  /\ variables' = r.vs
           /\ unasgn_vars' = UnassignedOf(vs0, csp)
           /\ nDecisions' = 0
           /\ nPrunings' = Len(r.prunings)
           /\ prunings' = r.prunings
           /\ status' = r.ok
           /\ printed' = IF r.ok THEN <<>> ELSE <<"contradiction at root">>
           /\ pc' = IF r.ok THEN "call" ELSE "finish"
    /\ stack' = <<>>
    /\ returned' = None
    /\ UNCHANGED <<constraints, csp, last, held, game>>

\* bt_recurse, entered with every variable assigned: return True
bt_recurse_all_assigned ==
    /\ pc = "call"
    /\ unasgn_vars = <<>>
    /\ status' = TRUE
    /\ pc' = "return"
    /\ UNCHANGED <<variables, constraints, csp, last, held, game, unasgn_vars, nDecisions,
                   nPrunings, stack, prunings, printed, returned>>

\* bt_recurse, entered with variables left: extractMRVvar, then the list
\* var.cur_domain() the loop runs over
bt_recurse_extract ==
    /\ pc = "call"
    /\ unasgn_vars # <<>>
    /\ LET var == extractMRVvar(variables, unasgn_vars)
       IN  /\ unasgn_vars' = ListRemove(unasgn_vars, var)
           /\ stack' = Append(stack, [var |-> var,
                                      vals |-> cur_domain(variables[var]),
                                      prunings |-> <<>>,
                                      entry |-> Entered])
    /\ pc' = "loop"
    /\ UNCHANGED <<variables, constraints, csp, last, held, game, nDecisions, nPrunings,
                   status, prunings, printed, returned>>

\* the pass of the loop without the count of the decision
bt_recurse_try_uncounted ==
    /\ pc = "loop"
    /\ Top.vals # <<>>
    /\ LET var == Top.var
           val == Head(Top.vals)
           vs1 == [variables EXCEPT ![var] = assign(@, val)]
           r   == propagator(vs1, csp, constraints, var)
       IN  /\ variables' = r.vs
           /\ nDecisions' = nDecisions
           /\ nPrunings' = nPrunings + Len(r.prunings)
           /\ stack' = [stack EXCEPT ![Len(stack)] =
                            [@ EXCEPT !.vals = Tail(@), !.prunings = r.prunings]]
           /\ status' = r.ok
           /\ pc' = IF r.ok THEN "call" ELSE "undo"
    /\ UNCHANGED <<constraints, csp, last, held, game, unasgn_vars, prunings,
                   printed, returned>>

\* bt_recurse, one pass of the loop up to the branch on the propagator's
\* status: assign the next value, count the decision, propagate
bt_recurse_try ==
    /\ pc = "loop"
    /\ Top.vals # <<>>
    /\ LET var == Top.var
           val == Head(Top.vals)
           vs1 == [variables EXCEPT ![var] = assign(@, val)]
           r   == propagator(vs1, csp, constraints, var)
       IN  /\ variables' = r.vs
           /\ nDecisions' = nDecisions + 1
           /\ nPrunings' = nPrunings + Len(r.prunings)
           /\ stack' = [stack EXCEPT ![Len(stack)] =
                            [@ EXCEPT !.vals = Tail(@), !.prunings = r.prunings]]
           /\ status' = r.ok
           /\ pc' = IF r.ok THEN "call" ELSE "undo"
    /\ UNCHANGED <<constraints, csp, last, held, game, unasgn_vars, prunings,
                   printed, returned>>

\* bt_recurse, the end of a failed pass: restore this pass's prunings and
\* unassign the variable
bt_recurse_undo ==
    /\ pc = "undo"
    /\ variables' = [restoreValues(variables, Top.prunings)
                        EXCEPT ![Top.var] = unassign(@)]
    /\ pc' = "loop"
    /\ UNCHANGED <<constraints, csp, last, held, game, unasgn_vars, nDecisions, nPrunings,
                   stack, status, prunings, printed, returned>>

\* bt_recurse that, after the last value, stays where it is and never returns
bt_recurse_exhausted_spinning ==
    /\ pc = "loop"
    /\ Top.vals = <<>>
    /\ UNCHANGED vars

\* bt_recurse, after the last value: restoreUnasgnVar and return False
bt_recurse_exhausted ==
    /\ pc = "loop"
    /\ Top.vals = <<>>
    /\ unasgn_vars' = restoreUnasgnVar(unasgn_vars, Top.var)
    /\ stack' = SubSeq(stack, 1, Len(stack) - 1)
    /\ status' = FALSE
    /\ pc' = "return"
    /\ UNCHANGED <<variables, constraints, csp, last, held, game, nDecisions, nPrunings,
                   prunings, printed, returned>>

\* bt_recurse that goes on to the restoring when the inner call returned True
bt_recurse_inner_true_searching_on ==
    /\ pc = "return"
    /\ stack # <<>>
    /\ status
    /\ pc' = "undo"
    /\ UNCHANGED <<variables, constraints, csp, last, held, game, unasgn_vars, nDecisions,
                   nPrunings, stack, status, prunings, printed, returned>>

\* bt_recurse, the inner call returned True: return True as well
bt_recurse_inner_true ==
    /\ pc = "return"
    /\ stack # <<>>
    /\ status
    /\ stack' = SubSeq(stack, 1, Len(stack) - 1)
    /\ UNCHANGED <<variables, constraints, csp, last, held, game, unasgn_vars, nDecisions,
                   nPrunings, pc, status, prunings, printed, returned>>

\* bt_recurse, the inner call returned False: go on to the restoring
bt_recurse_inner_false ==
    /\ pc = "return"
    /\ stack # <<>>
    /\ ~status
    /\ pc' = "undo"
    /\ UNCHANGED <<variables, constraints, csp, last, held, game, unasgn_vars, nDecisions,
                   nPrunings, stack, status, prunings, printed, returned>>

\* bt_search, the outermost bt_recurse call returned
bt_search_recursed ==
    /\ pc = "return"
    /\ stack = <<>>
    /\ pc' = "finish"
    /\ UNCHANGED <<variables, constraints, csp, last, held, game, unasgn_vars, nDecisions,
                   nPrunings, stack, status, prunings, printed, returned>>

\* bt_search whose last lines print "solved" without looking at status
bt_search_end_always_solved ==
    /\ pc = "finish"
    /\ variables' = restoreValues(variables, prunings)
    /\ printed' = printed \o <<"solved", "bt_search finished">>
    /\ returned' = None
    /\ pc' = "done"
    /\ UNCHANGED <<constraints, csp, last, held, game, unasgn_vars, nDecisions, nPrunings,
                   stack, status, prunings>>

\* bt_search, from restoreValues(prunings) to its end; it has no return
\* statement, so its caller receives None
bt_search_end ==
    /\ pc = "finish"
    /\ variables' = restoreValues(variables, prunings)
    /\ printed' = printed \o <<IF status THEN "solved" ELSE "unsolved">>
                          \o <<"bt_search finished">>
    /\ returned' = None
    /\ pc' = "done"
    /\ UNCHANGED <<constraints, csp, last, held, game, unasgn_vars, nDecisions, nPrunings,
                   stack, status, prunings>>

-----------------------------------------------------------------------------
(* The CSPs searched.  Each is built the way a model builder builds it: the   *)
(* Variable and Constraint objects are constructed, the tuples added with     *)
(* add_satisfying_tuples, and the CSP filled with add_var and add_constraint. *)
(* A scope is a non-empty list of distinct variables of the CSP, and a tuple  *)
(* has one domain value per scope position.                                   *)

\* a set as a list, in some fixed order
RECURSIVE SetToSeq(_)
SetToSeq(S) ==
    IF S = {} THEN <<>>
    ELSE LET x == CHOOSE y \in S : TRUE IN <<x>> \o SetToSeq(S \ {x})

\* the lists of a distinct variables among n
Scopes(n, a) == {s \in [1 .. a -> 1 .. n] : \A i, j \in 1 .. a : i # j => s[i] # s[j]}

\* the sets of at most MaxTuples tuples of length a over the values D
TupleSets(D, a) == {T \in SUBSET [1 .. a -> D] : Cardinality(T) <= MaxTuples}

\* what a constraint is built from: its scope and its list of tuples
ConChoices(n, D) ==
    UNION {{[scope |-> s, tuples |-> SetToSeq(T)] : s \in Scopes(n, a), T \in TupleSets(D, a)}
           : a \in 1 .. MaxArity}

\* CSP.__init__(name, vars): add_var for each variable of the list
RECURSIVE AddVars(_, _)
AddVars(p, list) ==
    IF list = <<>> THEN p ELSE AddVars(add_var(p, Head(list)), Tail(list))

\* add_constraint for the constraints i, i+1, ... of the heap cs
RECURSIVE AddCons(_, _, _)
AddCons(p, cs, i) ==
    IF i > Len(cs) THEN p
    ELSE AddCons(add_constraint(p, i, cs[i].scope), cs, i + 1)

\* the heaps and the CSP of a problem with domains doms and constraints cc
BuildProblem(doms, cc) ==
    LET vh == [x \in 1 .. Len(doms) |-> NewVariable(doms[x])]
        ch == [k \in 1 .. Len(cc) |->
                  add_satisfying_tuples(NewConstraint(cc[k].scope), cc[k].tuples)]
    IN  [variables |-> vh, constraints |-> ch,
         csp |-> AddCons(AddVars(NewCSP, [x \in 1 .. Len(doms) |-> x]), ch, 1)]

\* the domain 0, 1, ... of the variables of a generated CSP
BTDomain == [i \in 1 .. DomSize |-> i - 1]

\* the end-to-end scenario: A, B, C over 1, 2, 3 and one constraint A < B < C
ABC ==
    BuildProblem(<<<<1, 2, 3>>, <<1, 2, 3>>, <<1, 2, 3>>>>,
                 <<[scope |-> <<1, 2, 3>>, tuples |-> <<<<1, 2, 3>>>>]>>)

\* the heaps and the CSP are those of problem pb
Loaded(pb) ==
    /\ variables = pb.variables
    /\ constraints = pb.constraints
    /\ csp = pb.csp

\* a generated problem, or the end-to-end scenario, before any search
Init ==
    /\ \/ \E n \in 0 .. MaxVars, m \in 0 .. MaxCons :
              \E cc \in [1 .. m -> ConChoices(n, Range(BTDomain))] :
                  Loaded(BuildProblem([x \in 1 .. n |-> BTDomain], cc))
       \/ Loaded(ABC)
    /\ last = <<>>
    /\ BT_init
    /\ Alone

Next ==
    \/ bt_search_begin
    \/ bt_recurse_all_assigned
    \/ bt_recurse_extract
    \/ bt_recurse_try
    \/ bt_recurse_undo
    \/ bt_recurse_exhausted
    \/ bt_recurse_inner_true
    \/ bt_recurse_inner_false
    \/ bt_search_recursed
    \/ bt_search_end

Spec == Init /\ [][Next]_vars

-----------------------------------------------------------------------------
(* Properties of bt_search with the GAC propagator *)

\* bt_search has returned
Done == pc = "done"

\* the variables of the CSP
CspVars == Range(csp.vars)

\* the values held by the scope variables of constraint c, in scope order
AssignedTuple(vs, c) ==
    [i \in 1 .. Len(c.scope) |-> get_assigned_value(vs[c.scope[i]])]

\* assignment f (variable -> value) satisfies every constraint of the CSP
Satisfies(f) ==
    \A k \in Range(csp.cons) :
        [i \in 1 .. Len(constraints[k].scope) |-> f[constraints[k].scope[i]]]
            \in constraints[k].sat_tuples

\* the full assignments, each variable to a value of its permanent domain,
\* that satisfy every constraint
Solutions ==
    {f \in [CspVars -> UNION {Range(variables[x].dom) : x \in CspVars}] :
        /\ \A x \in CspVars : f[x] \in Range(variables[x].dom)
        /\ Satisfies(f)}

\* the assignment held by the variables
Assignment == [x \in CspVars |-> get_assigned_value(variables[x])]

\* every flag of every variable of the CSP is set and no variable is assigned
AllRestored ==
    \A x \in CspVars :
        /\ ~is_assigned(variables[x])
        /\ cur_domain(variables[x]) = domain(variables[x])

\* C1: when bt_search with GAC ends in success, every variable of the CSP
\* holds a value of its permanent domain and the values held by the scope of
\* every constraint, in scope order, form one of its satisfying tuples.
C1_SuccessIsSolution ==
    (Done /\ status) =>
        /\ \A x \in CspVars :
               /\ is_assigned(variables[x])
               /\ get_assigned_value(variables[x]) \in Range(domain(variables[x]))
        /\ \A k \in Range(csp.cons) :
               AssignedTuple(variables, constraints[k]) \in constraints[k].sat_tuples

\* a successful search of a CSP with two constraints that made prunings
C1_Witness ==
    /\ Done /\ status
    /\ Len(csp.cons) = 2
    /\ Len(csp.vars) = 3
    /\ nPrunings > 0

\* C2: bt_search with GAC ends in success exactly when the CSP has a
\* solution, and when the solution is unique the variables hold it.
C2_SuccessIffSolvable ==
    Done =>
        /\ status <=> (Solutions # {})
        /\ Cardinality(Solutions) = 1 => Assignment \in Solutions

\* a search that succeeded after a first value had failed, on a CSP with one
\* solution
C2_Witness ==
    /\ Done /\ status
    /\ Cardinality(Solutions) = 1
    /\ nDecisions > Len(csp.vars)

\* C3: when bt_search ends in failure, every variable of the CSP is
\* unassigned and its current domain is its full permanent domain.
C3_FailureRestoresAll ==
    (Done /\ ~status) => AllRestored

\* a failed search that went through the recursion and pruned values there
C3_Witness ==
    /\ Done /\ ~status
    /\ nDecisions > 0
    /\ nPrunings > Len(prunings)

\* the CSP is the end-to-end scenario
IsABC ==
    /\ csp = ABC.csp
    /\ constraints = ABC.constraints
    /\ \A x \in CspVars : variables[x].dom = ABC.variables[x].dom

\* C4: on the scenario A, B, C over {1,2,3} with the single tuple (1,2,3),
\* bt_search with GAC ends in success with A=1, B=2, C=3 and both counters
\* positive.
C4_EndToEnd ==
    (IsABC /\ Done) =>
        /\ status
        /\ Assignment = <<1, 2, 3>>
        /\ nDecisions > 0
        /\ nPrunings > 0

\* the scenario has been searched
C4_Witness == IsABC /\ Done /\ nDecisions = 3

\* a Python value taken as a condition: None and 0 (False) are false
Truthy(x) == x # None /\ x # 0

\* C5 as stated: the value bt_search returns tells success from failure
C5_ReturnTellsOutcome ==
    Done => (Truthy(returned) <=> status)

\* C5, amended: bt_search returns None whatever the outcome; the outcome is
\* told by the line it prints, "solved" on success and "unsolved" on failure.
C5_PrintTellsOutcome ==
    Done =>
        /\ returned = None
        /\ status <=> ("solved" \in Range(printed))
        /\ ~status <=> ("unsolved" \in Range(printed))

\* a search that made decisions has succeeded, printed "solved" and returned
C5_Witness ==
    /\ Done /\ status
    /\ printed = <<"solved", "bt_search finished">>
    /\ nDecisions > 0

-----------------------------------------------------------------------------
(* A single Variable under any sequence of calls.  Its permanent domain is a  *)
(* list of distinct values.  `last` records each call: its name, its argument *)
(* and the Variable as it was when the call was made.                         *)

\* the lists of distinct values, at most n long
Domains(n) ==
    {d \in SeqsUpTo(Values, n) : \A i, j \in 1 .. Len(d) : i # j => d[i] # d[j]}

\* the Variable under test
TheVar == variables[1]

\* a call op(arg) on the Variable turns it into v
VarCall(op, arg, v) ==
    /\ variables' = [variables EXCEPT ![1] = v]
    /\ last' = [op |-> op, arg |-> arg, pre |-> TheVar]
    /\ UNCHANGED <<constraints, csp, held, game>>
    /\ UNCHANGED btvars

call_assign == \E value \in Values : VarCall("assign", value, assign(TheVar, value))

call_unassign == VarCall("unassign", None, unassign(TheVar))

call_prune_value ==
    \E value \in Range(TheVar.dom) :
        VarCall("prune_value", value, prune_value(TheVar, value))

call_unprune_value ==
    \E value \in Range(TheVar.dom) :
        VarCall("unprune_value", value, unprune_value(TheVar, value))

call_restore_curdom == VarCall("restore_curdom", None, restore_curdom(TheVar))

InitVar ==
    /\ \E d \in Domains(MaxDomLen) :
           /\ variables = <<NewVariable(d)>>
           /\ last = [op |-> "__init__", arg |-> None, pre |-> NewVariable(d)]
    /\ constraints = <<>>
    /\ csp = NewCSP
    /\ BT_init
    /\ Alone

NextVar ==
    \/ call_assign
    \/ call_unassign
    \/ call_prune_value
    \/ call_unprune_value
    \/ call_restore_curdom

SpecVar == InitVar /\ [][NextVar]_vars

\* the values whose flag is set, read off the flags without cur_domain
FlagSet(v) == {v.dom[i] : i \in {j \in 1 .. Len(v.dom) : v.curdom[j]}}

\* the call assign(value) made on Variable pre is one the claim says fails
C6_MustFail(pre, value) ==
    \/ pre.assignedValue # None
    \/ value \notin Range(cur_domain(pre))

C7_AssignedView ==
    /\ is_assigned(TheVar) <=> (get_assigned_value(TheVar) # None)
    /\ is_assigned(TheVar) =>
           /\ cur_domain(TheVar) = <<get_assigned_value(TheVar)>>
           /\ cur_domain_size(TheVar) = 1
    /\ TheVar.assignedValue = None => ~is_assigned(TheVar)
    /\ TheVar.assignedValue \in Values => is_assigned(TheVar)

\* the Variable is assigned and every one of its flags, that of the assigned
\* value included, has been cleared
C7_Witness ==
    /\ TheVar.assignedValue \in Values
    /\ Len(TheVar.dom) >= 2
    /\ FlagSet(TheVar) = {}

\* C8: after restore_curdom() on a Variable that is not assigned, cur_domain()
\* is the permanent domain, in domain order, and a second restore_curdom()
\* changes nothing.
C8_RestoreIsFull ==
    last.op = "restore_curdom" =>
        /\ TheVar.assignedValue = None => cur_domain(TheVar) = domain(TheVar)
        /\ restore_curdom(TheVar) = TheVar
        /\ TheVar.assignedValue = last.pre.assignedValue

\* restore_curdom was called on an unassigned Variable with every one of its
\* values, two at least, pruned
C8_Witness ==
    /\ last.op = "restore_curdom"
    /\ last.pre.assignedValue = None
    /\ Len(last.pre.dom) >= 2
    /\ FlagSet(last.pre) = {}

-----------------------------------------------------------------------------
(* A single Constraint over Variables that are assigned, unassigned, pruned   *)
(* and unpruned in any order, while tuples are added to it.                   *)

\* the Constraint under test
TheCon == constraints[1]

\* the Variables of the heap
Heap == DOMAIN variables

\* a call on Variable x of the heap turns it into v
HeapCall(x, v) ==
    /\ variables' = [variables EXCEPT ![x] = v]
    /\ UNCHANGED <<constraints, csp, last, held, game>>
    /\ UNCHANGED btvars

heap_assign == \E x \in Heap : \E value \in Range(variables[x].dom) :
                   HeapCall(x, assign(variables[x], value))

heap_unassign == \E x \in Heap : HeapCall(x, unassign(variables[x]))

heap_prune_value == \E x \in Heap : \E value \in Range(variables[x].dom) :
                        HeapCall(x, prune_value(variables[x], value))

heap_unprune_value == \E x \in Heap : \E value \in Range(variables[x].dom) :
                          HeapCall(x, unprune_value(variables[x], value))

\* add_satisfying_tuples called with one tuple, of the length of the scope
call_add_satisfying_tuples ==
    \E t \in [1 .. Len(TheCon.scope) -> Range(BTDomain)] :
        LET c == add_satisfying_tuples(TheCon, <<t>>)
        IN  /\ \A key \in DOMAIN c.sup_tuples : Len(c.sup_tuples[key]) <= MaxSupLen
            /\ constraints' = [constraints EXCEPT ![1] = c]
            /\ UNCHANGED <<variables, csp, last, held, game>>
            /\ UNCHANGED btvars

InitCon ==
    /\ variables = [x \in 1 .. MaxArity |-> NewVariable(BTDomain)]
    /\ \E a \in 1 .. MaxArity : \E sc \in Scopes(MaxArity, a) :
           constraints = <<NewConstraint(sc)>>
    /\ csp = NewCSP
    /\ last = <<>>
    /\ BT_init
    /\ Alone

NextCon ==
    \/ heap_assign
    \/ heap_unassign
    \/ heap_prune_value
    \/ heap_unprune_value
    \/ call_add_satisfying_tuples

SpecCon == InitCon /\ [][NextCon]_vars

\* value val is in the current domain of Variable v, read off the list
\* cur_domain() returns
InCurDomainList(v, val) == val \in Range(cur_domain(v))

\* constraint c has a satisfying tuple with val at position i whose other
\* components are each in the current domain of their scope variable
OthersSupported(vs, c, i, val) ==
    \E t \in c.sat_tuples :
        /\ t[i] = val
        /\ \A j \in 1 .. Len(c.scope) :
               j # i => InCurDomainList(vs[c.scope[j]], t[j])

\* C9 as stated: has_support(var, val) is true exactly when some satisfying
\* tuple gives val to var and has every other component in the current domain
\* of its variable.
C9_SupportByOthers ==
    \A i \in 1 .. Len(TheCon.scope), val \in Values :
        has_support(variables, TheCon, TheCon.scope[i], val)
            <=> OthersSupported(variables, TheCon, i, val)

\* C9, amended: has_support(var, val) is true exactly when val is in the
\* current domain of var and some satisfying tuple gives val to var and has
\* every other component in the current domain of its variable.
C9_SupportByOthersAndOwn ==
    \A i \in 1 .. Len(TheCon.scope), val \in Values :
        has_support(variables, TheCon, TheCon.scope[i], val)
            <=> /\ InCurDomainList(variables[TheCon.scope[i]], val)
                /\ OthersSupported(variables, TheCon, i, val)

\* a binary constraint holds a tuple whose first value is pruned from its
\* variable while the second is the value its variable is assigned
C9_Witness ==
    /\ Len(TheCon.scope) = 2
    /\ \E t \in TheCon.sat_tuples :
           /\ ~InCurDomainList(variables[TheCon.scope[1]], t[1])
           /\ variables[TheCon.scope[1]].assignedValue = None
           /\ variables[TheCon.scope[2]].assignedValue = t[2]
           /\ ~has_support(variables, TheCon, TheCon.scope[1], t[1])
           /\ has_support(variables, TheCon, TheCon.scope[2], 1 - t[2]) = FALSE

-----------------------------------------------------------------------------
(* A CSP under construction: add_var and add_constraint called in any order   *)
(* with the Variable and Constraint objects of the heaps, registered or not.  *)

\* a call op(arg) on the CSP turns it into p; no list grows past MaxListLen
CspCall(op, arg, p) ==
    /\ Len(p.cons) <= MaxListLen
    /\ \A v \in DOMAIN p.vars_to_cons : Len(p.vars_to_cons[v]) <= MaxListLen
    /\ csp' = p
    /\ last' = [op |-> op, arg |-> arg, pre |-> csp]
    /\ UNCHANGED <<variables, constraints, held, game>>
    /\ UNCHANGED btvars

call_add_var == \E v \in Heap : CspCall("add_var", v, add_var(csp, v))

call_add_constraint ==
    \E c \in DOMAIN constraints :
        CspCall("add_constraint", c, add_constraint(csp, c, constraints[c].scope))

\* one Constraint object for every scope over the Variables of the heap
AllScopes == SetToSeq(UNION {Scopes(MaxArity, a) : a \in 1 .. MaxArity})

InitCsp ==
    /\ variables = [x \in 1 .. MaxArity |-> NewVariable(BTDomain)]
    /\ constraints = [k \in 1 .. Len(AllScopes) |-> NewConstraint(AllScopes[k])]
    /\ csp = NewCSP
    /\ last = [op |-> "__init__", arg |-> None, pre |-> NewCSP]
    /\ BT_init
    /\ Alone

NextCsp ==
    \/ call_add_var
    \/ call_add_constraint

SpecCsp == InitCsp /\ [][NextCsp]_vars

\* C10: add_constraint called with a constraint whose scope holds a variable
\* the CSP does not have leaves the CSP as it was: its constraint list and
\* every entry of its variable-to-constraints index.
C10_RejectedLeavesCsp ==
    (/\ last.op = "add_constraint"
     /\ \E i \in 1 .. Len(constraints[last.arg].scope) :
            constraints[last.arg].scope[i] \notin Range(last.pre.vars))
        => csp = last.pre

\* the number of times x occurs in list s
Count(s, x) == Cardinality({i \in 1 .. Len(s) : s[i] = x})

\* C11: after any sequence of add_var and add_constraint calls, for every
\* registered variable v the list get_cons_with_var(v) holds exactly the
\* constraints of get_all_cons() whose scope contains v: a constraint over v
\* as often as get_all_cons() holds it, any other constraint not at all.
C11_IndexMatchesCons ==
    \A v \in Range(get_all_vars(csp)) :
        \A c \in DOMAIN constraints :
            Count(get_cons_with_var(csp, v), c) =
                IF v \in Range(get_scope(constraints[c]))
                THEN Count(get_all_cons(csp), c)
                ELSE 0

-----------------------------------------------------------------------------
(* The lists the accessors of a CSP hand to a caller.  A Python list is an    *)
(* object: an accessor returns either the list the CSP itself keeps (alias    *)
(* names the attribute, and the items are those of the attribute from then    *)
(* on) or a new list with items of its own (alias is "none").                 *)

\* CSP.get_all_cons, the object returned: self.cons
get_all_cons_returns(p) == [alias |-> "cons", items |-> <<>>]

\* CSP.get_cons_with_var, the object returned: list(self.vars_to_cons[var])
get_cons_with_var_returns(p, var) == [alias |-> "none", items |-> get_cons_with_var(p, var)]

\* CSP.get_all_vars, the object returned: list(self.vars)
get_all_vars_returns(p) == [alias |-> "none", items |-> get_all_vars(p)]

\* the list the caller holds
HeldList == held[1]

\* the items of the list the caller holds
HeldItems == IF HeldList.alias = "cons" THEN csp.cons ELSE HeldList.items

\* an accessor is called and the caller keeps the list it returns
AccessorCall(op, arg, list) ==
    /\ held' = <<list>>
    /\ last' = [op |-> op, arg |-> arg, pre |-> csp]
    /\ UNCHANGED <<variables, constraints, csp, game>>
    /\ UNCHANGED btvars

call_get_all_cons == AccessorCall("get_all_cons", None, get_all_cons_returns(csp))

call_get_cons_with_var ==
    \E var \in DOMAIN csp.vars_to_cons :
        AccessorCall("get_cons_with_var", var, get_cons_with_var_returns(csp, var))

call_get_all_vars == AccessorCall("get_all_vars", None, get_all_vars_returns(csp))

\* the caller changes the list it holds so that its items become items: the
\* change is made to the list object, the CSP's own when it is the one held
CallerWrites(op, arg, items) ==
    /\ Len(items) <= MaxListLen
    /\ IF HeldList.alias = "cons"
       THEN csp' = [csp EXCEPT !.cons = items] /\ held' = held
       ELSE csp' = csp /\ held' = <<[HeldList EXCEPT !.items = items]>>
    /\ last' = [op |-> op, arg |-> arg, pre |-> csp]
    /\ UNCHANGED <<variables, constraints, game>>
    /\ UNCHANGED btvars

\* list.append(x) on the held list
caller_append ==
    /\ held # <<>>
    /\ \E x \in DOMAIN constraints : CallerWrites("list.append", x, Append(HeldItems, x))

\* list.pop(0) on the held list
caller_pop ==
    /\ held # <<>>
    /\ HeldItems # <<>>
    /\ CallerWrites("list.pop", 0, Tail(HeldItems))

\* list.reverse() on the held list
caller_reverse ==
    /\ held # <<>>
    /\ CallerWrites("list.reverse", None,
                    [i \in 1 .. Len(HeldItems) |-> HeldItems[Len(HeldItems) + 1 - i]])

NextAcc ==
    \/ call_add_var
    \/ call_add_constraint
    \/ call_get_all_cons
    \/ call_get_cons_with_var
    \/ call_get_all_vars
    \/ caller_append
    \/ caller_pop
    \/ caller_reverse

SpecAcc == InitCsp /\ [][NextAcc]_vars

\* C12: the lists get_all_cons(), get_cons_with_var(var) and get_all_vars()
\* return are copies: adding to, removing from or reordering a returned list
\* leaves the CSP's constraint list, variable list and index as they were.
C12_ReturnedListsAreCopies ==
    last.op \in {"list.append", "list.pop", "list.reverse"} => csp = last.pre

-----------------------------------------------------------------------------
(* A single Constraint under any sequence of add_satisfying_tuples calls,     *)
(* each given a list of tuples that are as long as the scope, shorter or      *)
(* longer.  `last` records each call: the list given and the Constraint as    *)
(* it was when the call was made.                                             *)

\* the tuples over the values of the domain, at most n long
TuplesUpTo(n) == UNION {[1 .. k -> Range(BTDomain)] : k \in 0 .. n}

\* add_satisfying_tuples(tuples) on the Constraint under test
call_add_tuples ==
    \E tuples \in SeqsUpTo(TuplesUpTo(Len(TheCon.scope) + 1), MaxCall) :
        LET c == add_satisfying_tuples(TheCon, tuples)
        IN  /\ \A key \in DOMAIN c.sup_tuples : Len(c.sup_tuples[key]) <= MaxSupLen
            /\ Cardinality(c.sat_tuples) <= MaxSat
            /\ constraints' = [constraints EXCEPT ![1] = c]
            /\ last' = [op |-> "add_satisfying_tuples", arg |-> tuples, pre |-> TheCon]
            /\ UNCHANGED <<variables, csp, held, game>>
            /\ UNCHANGED btvars

InitTup ==
    /\ variables = [x \in 1 .. MaxArity |-> NewVariable(BTDomain)]
    /\ \E a \in 1 .. MaxArity : \E sc \in Scopes(MaxArity, a) :
           /\ constraints = <<NewConstraint(sc)>>
           /\ last = [op |-> "__init__", arg |-> <<>>, pre |-> NewConstraint(sc)]
    /\ csp = NewCSP
    /\ BT_init
    /\ Alone

NextTup == call_add_tuples

SpecTup == InitTup /\ [][NextTup]_vars

\* every tuple Constraint c holds, in its set and in its support lists, is
\* as long as its scope
ScopeLength(c) ==
    /\ \A t \in c.sat_tuples : Len(t) = Len(c.scope)
    /\ \A key \in DOMAIN c.sup_tuples :
           \A k \in 1 .. Len(c.sup_tuples[key]) :
               Len(c.sup_tuples[key][k]) = Len(c.scope)

\* C13 as stated: after any sequence of add_satisfying_tuples calls every
\* tuple in the satisfying-tuple set and in the support lists is as long as
\* the scope, a tuple of another length having added nothing.
C13_TuplesHaveScopeLength == ScopeLength(TheCon)

\* C13, amended: add_satisfying_tuples does not look at the length of a
\* tuple.  When the Constraint held only tuples of the length of its scope and
\* the call is given only such tuples, it holds only such tuples afterwards;
\* a given tuple of another length is added to the satisfying-tuple set like
\* any other, unless a longer tuple earlier in the list has ended the call.
C13_LengthIsNotChecked ==
    last.op = "add_satisfying_tuples" =>
        /\ (/\ ScopeLength(last.pre)
            /\ \A k \in 1 .. Len(last.arg) : Len(last.arg[k]) = Len(TheCon.scope))
               => ScopeLength(TheCon)
        /\ \A k \in 1 .. Len(last.arg) :
               (\A j \in 1 .. k - 1 : Len(last.arg[j]) <= Len(TheCon.scope))
                   => last.arg[k] \in TheCon.sat_tuples

\* a call on a Constraint over two variables was given a tuple shorter than
\* the scope and then one as long as it
C13_Witness ==
    /\ last.op = "add_satisfying_tuples"
    /\ Len(TheCon.scope) = 2
    /\ Len(last.arg) = 2
    /\ Len(last.arg[1]) = 1
    /\ Len(last.arg[2]) = 2
    /\ ScopeLength(last.pre)

\* the states a Variable over the domain 0, 1, ... can be in
VarStates ==
    {[dom |-> BTDomain, curdom |-> f, assignedValue |-> a] :
        f \in [1 .. DomSize -> BOOLEAN], a \in Range(BTDomain) \cup {None}}

\* the states the Variables of the heap can be in
HeapStates == [Heap -> VarStates]

\* Constraints c and d give the same has_support result for every variable
\* of the scope and every value, whatever the state of the Variables
SameSupport(c, d) ==
    \A vs \in HeapStates :
        \A i \in 1 .. Len(c.scope), val \in Values :
            has_support(vs, c, c.scope[i], val) <=> has_support(vs, d, c.scope[i], val)

\* C14: after add_satisfying_tuples(tuples), with tuples of the length of the
\* scope, the satisfying-tuple set is the old set united with the given
\* tuples; the same call made again leaves the set as it is, and has_support
\* of every variable and value as it is in every state of the Variables.
C14_IdempotentUnion ==
    (/\ last.op = "add_satisfying_tuples"
     /\ \A k \in 1 .. Len(last.arg) : Len(last.arg[k]) = Len(TheCon.scope))
        => /\ TheCon.sat_tuples = last.pre.sat_tuples \cup Range(last.arg)
           /\ add_satisfying_tuples(TheCon, last.arg).sat_tuples = TheCon.sat_tuples
           /\ ScopeLength(TheCon)
                  => SameSupport(add_satisfying_tuples(TheCon, last.arg), TheCon)

\* a call on a Constraint over two variables was given two different tuples,
\* one of them held already, so that this tuple is listed twice as a support
C14_Witness ==
    /\ last.op = "add_satisfying_tuples"
    /\ Len(TheCon.scope) = 2
    /\ ScopeLength(TheCon)
    /\ Len(last.arg) = 2
    /\ last.arg[1] # last.arg[2]
    /\ last.arg[1] \in last.pre.sat_tuples
    /\ \E key \in DOMAIN TheCon.sup_tuples :
           TheCon.sup_tuples[key] = <<last.arg[1], last.arg[1]>>

-----------------------------------------------------------------------------
(* bt_search_MS: the search of the Minesweeper solver.  It is bt_search       *)
(* without the reset of the variables and with extractMRVvar_MS in the place  *)
(* of extractMRVvar; bt_recurse_MS has the lines of bt_recurse from the       *)
(* value loop on, so the steps of that loop are those of bt_recurse.  The     *)
(* caller has built the CSP and may have assigned some of its variables.      *)

\* the first loop returning the last variable whose current domain has size 1
FirstForced_last(vs, list, i) ==
    LET S == {k \in i .. Len(list) : cur_domain_size(vs[list[k]]) = 1}
    IN  IF S = {} THEN None
        ELSE list[CHOOSE k \in S : \A j \in S : j <= k]

\* BT.extractMRVvar_MS, first loop, from position i of the list on: the first
\* variable whose current domain has size 1
RECURSIVE FirstForced(_, _, _)
FirstForced(vs, list, i) ==
    IF i > Len(list) THEN None
    ELSE IF cur_domain_size(vs[list[i]]) = 1 THEN list[i]
    ELSE FirstForced(vs, list, i + 1)

\* BT.extractMRVvar_MS, second loop, from constraint k of get_all_cons() on:
\* the first unassigned variable of the first constraint with one unassigned
\* scope variable
RECURSIVE FirstSole(_, _, _, _)
FirstSole(vs, p, cs, k) ==
    IF k > Len(get_all_cons(p)) THEN None
    ELSE IF get_n_unasgn(vs, cs[get_all_cons(p)[k]]) = 1
    THEN get_unasgn_vars(vs, cs[get_all_cons(p)[k]])[1]
    ELSE FirstSole(vs, p, cs, k + 1)

\* extractMRVvar_MS that falls back on extractMRVvar where no variable is
\* forced
extractMRVvar_MS_or_MRV(vs, list, p, cs) ==
    IF FirstForced(vs, list, 1) # None THEN FirstForced(vs, list, 1)
    ELSE IF FirstSole(vs, p, cs, 1) # None THEN FirstSole(vs, p, cs, 1)
    ELSE extractMRVvar(vs, list)

\* BT.extractMRVvar_MS: the variable returned, or None
extractMRVvar_MS(vs, list, p, cs) ==
    IF FirstForced(vs, list, 1) # None THEN FirstForced(vs, list, 1)
    ELSE FirstSole(vs, p, cs, 1)

\* the entry of bt_search_MS with the reset of bt_search left in
bt_search_MS_begin_with_reset ==
    /\ pc = "idle"
    /\ LET vs0 == restore_all_variable_domains(variables, csp)
           r   == propagator(vs0, csp, constraints, None)
       IN  /\ variables' = r.vs
           /\ unasgn_vars' = UnassignedOf(vs0, csp)
           /\ nDecisions' = 0
           /\ nPrunings' = Len(r.prunings)
           /\ prunings' = r.prunings
           /\ status' = r.ok
           /\ printed' = IF r.ok THEN <<>> ELSE <<"contradiction at root">>
           /\ pc' = IF r.ok THEN "call" ELSE "finish"
    /\ stack' = <<>>
    /\ returned' = None
    /\ last' = [op |-> "bt_search_MS", arg |-> None, pre |-> variables]
    /\ UNCHANGED <<constraints, csp, held, game>>

\* bt_search_MS, from its entry to the branch on the root status: the
\* counters are cleared, the unassigned variables collected and the
\* propagator called with no variable; no variable is reset.
bt_search_MS_begin ==
    /\ pc = "idle"
    /\ LET r == propagator(variables, csp, constraints, None)
       IN  /\ variables' = r.vs
           /\ unasgn_vars' = UnassignedOf(variables, csp)
           /\ nDecisions' = 0
           /\ nPrunings' = Len(r.prunings)
           /\ prunings' = r.prunings
           /\ status' = r.ok
           /\ printed' = IF r.ok THEN <<>> ELSE <<"contradiction at root">>
           /\ pc' = IF r.ok THEN "call" ELSE "finish"
    /\ stack' = <<>>
    /\ returned' = None
    /\ last' = [op |-> "bt_search_MS", arg |-> None, pre |-> variables]
    /\ UNCHANGED <<constraints, csp, held, game>>

\* bt_recurse_MS, entered with variables left of which extractMRVvar_MS
\* returns one: it is removed from the list, and var.cur_domain() is the
\* list the loop runs over
bt_recurse_MS_extract ==
    /\ pc = "call"
    /\ unasgn_vars # <<>>
    /\ LET var == extractMRVvar_MS(variables, unasgn_vars, csp, constraints)
       IN  /\ var # None
           /\ unasgn_vars' = ListRemove(unasgn_vars, var)
           /\ stack' = Append(stack, [var |-> var,
                                      vals |-> cur_domain(variables[var]),
                                      prunings |-> <<>>,
                                      entry |-> Entered])
    /\ pc' = "loop"
    /\ UNCHANGED <<variables, constraints, csp, last, held, game, nDecisions,
                   nPrunings, status, prunings, printed, returned>>

\* bt_recurse_MS, entered with variables left of which extractMRVvar_MS
\* returns None: return True
bt_recurse_MS_none ==
    /\ pc = "call"
    /\ unasgn_vars # <<>>
    /\ extractMRVvar_MS(variables, unasgn_vars, csp, constraints) = None
    /\ status' = TRUE
    /\ pc' = "return"
    /\ UNCHANGED <<variables, constraints, csp, last, held, game, unasgn_vars,
                   nDecisions, nPrunings, stack, prunings, printed, returned>>

\* the end of bt_search_MS returning the other counter
bt_search_MS_end_returns_nPrunings ==
    /\ pc = "finish"
    /\ variables' = restoreValues(variables, prunings)
    /\ printed' = IF status THEN printed ELSE Append(printed, "unsolved")
    /\ returned' = nPrunings
    /\ pc' = "done"
    /\ UNCHANGED <<constraints, csp, last, held, game, unasgn_vars, nDecisions,
                   nPrunings, stack, status, prunings>>

\* bt_search_MS, from restoreValues(prunings) to return self.nDecisions
bt_search_MS_end ==
    /\ pc = "finish"
    /\ variables' = restoreValues(variables, prunings)
    /\ printed' = IF status THEN printed ELSE Append(printed, "unsolved")
    /\ returned' = nDecisions
    /\ pc' = "done"
    /\ UNCHANGED <<constraints, csp, last, held, game, unasgn_vars, nDecisions,
                   nPrunings, stack, status, prunings>>

\* the caller's assignments: variable x is given value f[x], or left alone
\* where f[x] is None
Assigned(vs, f) ==
    [x \in DOMAIN vs |-> IF f[x] = None THEN vs[x] ELSE assign(vs[x], f[x])]

\* a CSP on which a forced choice has to be undone: X, Y and Z over 0, 1, ...;
\* X is the one variable of a constraint that allows it 0 and 1, and of the
\* two constraints over X and Y the pair (1, 1) alone satisfies both, while
\* each value of X and of Y has a support in each
OneFails ==
    BuildProblem(<<BTDomain, BTDomain, BTDomain>>,
                 <<[scope |-> <<1>>, tuples |-> <<<<0>>, <<1>>>>],
                   [scope |-> <<1, 2>>, tuples |-> <<<<0, 0>>, <<1, 1>>>>],
                   [scope |-> <<1, 2>>, tuples |-> <<<<0, 1>>, <<1, 0>>, <<1, 1>>>>]>>)

\* the same with no pair that satisfies both constraints over X and Y, and
\* with a first constraint that has Z as its one variable and allows it 0 and
\* 1, so that Z is chosen before X
BothFail ==
    BuildProblem(<<BTDomain, BTDomain, BTDomain>>,
                 <<[scope |-> <<3>>, tuples |-> <<<<0>>, <<1>>>>],
                   [scope |-> <<1>>, tuples |-> <<<<0>>, <<1>>>>],
                   [scope |-> <<1, 2>>, tuples |-> <<<<0, 0>>, <<1, 1>>>>],
                   [scope |-> <<1, 2>>, tuples |-> <<<<0, 1>>, <<1, 0>>>>]>>)

\* every scope variable of constraint c is assigned and the values assigned
\* are not one of its satisfying tuples
Violated(vs, c) ==
    /\ get_n_unasgn(vs, c) = 0
    /\ [i \in 1 .. Len(c.scope) |-> get_assigned_value(vs[c.scope[i]])] \notin c.sat_tuples

\* the propagator returns when called on the caller's assignment.  The value
\* of an assigned variable stays in its current domain when it is pruned, so
\* two violated constraints over a common variable would re-enqueue each
\* other without end.
PropagatorReturns(vs, p, cs) ==
    \A j, k \in 1 .. Len(p.cons) :
        (j # k /\ Violated(vs, cs[p.cons[j]]) /\ Violated(vs, cs[p.cons[k]]))
            => Range(cs[p.cons[j]].scope) \cap Range(cs[p.cons[k]].scope) = {}

\* the heaps and the CSP are those of problem pb, of which the caller has
\* assigned some variables
LoadedMS(pb) ==
    \E f \in [DOMAIN pb.variables -> Range(BTDomain) \cup {None}] :
        /\ PropagatorReturns(Assigned(pb.variables, f), pb.csp, pb.constraints)
        /\ variables = Assigned(pb.variables, f)
        /\ constraints = pb.constraints
        /\ csp = pb.csp

\* a generated problem of at most MSVars variables, or one of the two above,
\* and a new BT object
InitMS ==
    /\ \/ \E n \in 0 .. MSVars, m \in 0 .. MaxCons :
              \E cc \in [1 .. m -> ConChoices(n, Range(BTDomain))] :
                  LoadedMS(BuildProblem([x \in 1 .. n |-> BTDomain], cc))
       \/ LoadedMS(OneFails)
       \/ LoadedMS(BothFail)
    /\ last = <<>>
    /\ BT_init
    /\ Alone

NextMS ==
    \/ bt_search_MS_begin
    \/ bt_recurse_all_assigned
    \/ bt_recurse_MS_extract
    \/ bt_recurse_MS_none
    \/ bt_recurse_try
    \/ bt_recurse_undo
    \/ bt_recurse_exhausted
    \/ bt_recurse_inner_true
    \/ bt_recurse_inner_false
    \/ bt_search_recursed
    \/ bt_search_MS_end

SpecMS == InitMS /\ [][NextMS]_vars

-----------------------------------------------------------------------------
(* Properties of bt_search_MS with the GAC propagator.  `last` holds the      *)
(* Variables as they were when bt_search_MS was called.                       *)

\* the variables of the CSP the caller had assigned when bt_search_MS was called
AssignedAtEntry == {x \in CspVars : is_assigned(last.pre[x])}

\* the variables this call of bt_search_MS has forced: unassigned when it was
\* called, assigned now
Forced == {x \in CspVars : ~is_assigned(last.pre[x]) /\ is_assigned(variables[x])}

\* C15: a variable that was assigned when bt_search_MS was called holds the
\* same assigned value in every state of the search and when bt_search_MS
\* has returned, on success and on failure.
C15_CallerAssignmentsKept ==
    pc # "idle" =>
        \A x \in AssignedAtEntry :
            get_assigned_value(variables[x]) = get_assigned_value(last.pre[x])

\* bt_search_MS has failed, after decisions it had to undo, on a CSP of
\* which the caller had assigned a variable
C15_Witness ==
    /\ Done /\ ~status
    /\ nDecisions > 0
    /\ AssignedAtEntry # {}

\* C16 as stated: the number bt_search_MS returns is the number of variables
\* it forced, those unassigned at entry that are assigned when it returns
C16_ReturnsForcedCount ==
    Done => returned = Cardinality(Forced)

\* C16, amended: bt_search_MS returns nDecisions, the number of assignments
\* it made, those it undid included; this is never less than the number of
\* variables it forced, and after a failure no variable is forced whatever
\* the number returned.
C16_ReturnsDecisionCount ==
    Done =>
        /\ returned = nDecisions
        /\ returned >= Cardinality(Forced)
        /\ ~status => Forced = {}

\* bt_search_MS has succeeded and returns more than the number of variables
\* it forced, of which there are two
C16_Witness ==
    /\ Done /\ status
    /\ Cardinality(Forced) = 2
    /\ returned > 2

\* the Variables as the root propagation of this call of bt_search_MS left them
AfterRoot == propagator(last.pre, csp, constraints, None).vs

\* in heap vs no unassigned variable of the CSP has a current domain of size
\* 1 and no constraint of the CSP has exactly one unassigned scope variable
NoneForced(vs) ==
    /\ \A x \in CspVars : ~is_assigned(vs[x]) => cur_domain_size(vs[x]) # 1
    /\ \A k \in Range(csp.cons) : get_n_unasgn(vs, constraints[k]) # 1

\* C17: if after the root propagation no unassigned variable has a current
\* domain of size 1 and no constraint has exactly one unassigned scope
\* variable, bt_search_MS makes no assignment, leaves the unassigned list as
\* it collected it and returns 0.
C17_NoForcedVariable ==
    (Done /\ NoneForced(AfterRoot)) =>
        /\ nDecisions = 0
        /\ \A x \in CspVars :
               get_assigned_value(variables[x]) = get_assigned_value(last.pre[x])
        /\ unasgn_vars = UnassignedOf(last.pre, csp)
        /\ returned = 0

\* bt_search_MS has returned from a CSP with two constraints and two
\* unassigned variables, of which the root propagation, which succeeded,
\* forced none
C17_Witness ==
    /\ Done /\ status
    /\ NoneForced(AfterRoot)
    /\ Len(unasgn_vars) = 2
    /\ Len(csp.cons) = 2

-----------------------------------------------------------------------------
(* The fixpoint GAC leaves behind *)

\* in heap vs every value in the current domain of every scope variable of
\* constraint c has a support: has_support says so, and the table of c holds
\* a tuple with the value whose other components are in the current domains
\* of their variables
Supported(vs, c) ==
    \A i \in 1 .. Len(c.scope) :
        \A val \in Range(cur_domain(vs[c.scope[i]])) :
            /\ has_support(vs, c, c.scope[i], val)
            /\ OthersSupported(vs, c, i, val)

\* C18 as stated: after a GAC call that reports success, at the root of a
\* search and after each assignment of the search, every value in the
\* current domain of every scope variable of every constraint has a support
\* in that constraint.
C18_GACFixpoint ==
    pc = "call" => \A k \in Range(csp.cons) : Supported(variables, constraints[k])

\* C18, amended: after such a GAC call this holds of every constraint but
\* those whose scope variables are all assigned to values that are no
\* satisfying tuple: the value of an assigned variable stays in its current
\* domain when it is pruned, so GAC reports success on an assignment, made
\* by the caller of bt_search_MS, that violates such a constraint.
C18_GACFixpointUnlessViolated ==
    pc = "call" =>
        \A k \in Range(csp.cons) :
            ~Violated(variables, constraints[k]) => Supported(variables, constraints[k])

\* a GAC call made for a just-assigned variable has pruned a value and
\* reported success, on a CSP of which the caller had assigned a variable
\* and which has a constraint with an unassigned variable left
C18_Witness ==
    /\ pc = "call"
    /\ stack # <<>>
    /\ Top.prunings # <<>>
    /\ AssignedAtEntry # {}
    /\ \E k \in Range(csp.cons) : get_n_unasgn(variables, constraints[k]) > 0
-----------------------------------------------------------------------------
(* The Minesweeper game.  A cell is a Buttons object; Buttons.py is not among *)
(* the sources, so a cell is what game.py uses of it: its value (-1 for a     *)
(* mine, as create_board reads a board of numbers), whether it is visible and *)
(* whether it is flagged.  Cells are numbered row by row from 1, the order of *)
(* self.cells.  The handlers are bound to the cells until game_over unbinds   *)
(* them.                                                                      *)

\* the cells of the board
Cells == 1 .. BoardRows * BoardCols

\* the row and the column of cell b, from 0
RowOf(b) == (b - 1) \div BoardCols
ColOf(b) == (b - 1) % BoardCols

\* Buttons(row, col, frame, images): a hidden, unflagged cell of value 0
NewButton == [value |-> 0, visible |-> FALSE, flagged |-> FALSE]

\* Buttons.is_mine, is_visible, is_flag
is_mine(cell) == cell.value = -1
is_visible(cell) == cell.visible
is_flag(cell) == cell.flagged

\* Buttons.show, Buttons.flag
show(cell) == [cell EXCEPT !.visible = TRUE]
flag(cell) == [cell EXCEPT !.flagged = ~@]

\* Minesweeper.get_adj_cells, in the order of adjacent_pos
adjacent_pos == <<<<-1, -1>>, <<-1, 0>>, <<-1, 1>>, <<0, -1>>, <<0, 1>>,
                  <<1, -1>>, <<1, 0>>, <<1, 1>>>>

get_adj_cells(row, col) ==
    LET onBoard(k) == /\ 0 <= row + adjacent_pos[k][1] /\ row + adjacent_pos[k][1] < BoardRows
                      /\ 0 <= col + adjacent_pos[k][2] /\ col + adjacent_pos[k][2] < BoardCols
        cellAt(k)  == (row + adjacent_pos[k][1]) * BoardCols + (col + adjacent_pos[k][2]) + 1
        RECURSIVE from(_)
        from(k) == IF k > Len(adjacent_pos) THEN <<>>
                   ELSE (IF onBoard(k) THEN <<cellAt(k)>> ELSE <<>>) \o from(k + 1)
    IN  from(1)

\* Minesweeper.place_mines and update_adj_cells: the boards that may result
\* from a first click on cell b.  The mines are NumMines different cells
\* outside b and the cells around it, picked at random; every other cell
\* counts the mines around it.
place_mines(cells, b) ==
    LET around == Range(get_adj_cells(RowOf(b), ColOf(b))) \cup {b}
        mined(M) == [x \in Cells |->
                        IF x \in M THEN [cells[x] EXCEPT !.value = -1]
                        ELSE [cells[x] EXCEPT !.value =
                                 Cardinality(Range(get_adj_cells(RowOf(x), ColOf(x))) \cap M)]]
    IN  {mined(M) : M \in {N \in SUBSET (Cells \ around) : Cardinality(N) = NumMines}}

\* Minesweeper.left_clicked, the loop that opens the cells around an empty
\* cell: todo is the list `buttons`, nbrs what is left of `surrounding`
RECURSIVE OpenAround(_, _, _)
OpenAround(cells, todo, nbrs) ==
    IF nbrs # <<>>
    THEN LET n == Head(nbrs)
         IN  OpenAround([cells EXCEPT ![n] = show(@)],
                        IF ~is_visible(cells[n]) /\ cells[n].value = 0
                        THEN Append(todo, n) ELSE todo,
                        Tail(nbrs))
    ELSE IF todo = <<>> THEN cells
    ELSE LET b == todo[Len(todo)]
         IN  OpenAround(cells, SubSeq(todo, 1, Len(todo) - 1),
                        get_adj_cells(RowOf(b), ColOf(b)))

\* Minesweeper.game_won: the value returned
game_won(g) ==
    ~\E x \in Cells : ~is_visible(g.cells[x]) /\ ~is_mine(g.cells[x])

\* Minesweeper.game_over
game_over(g) ==
    [g EXCEPT !.done = TRUE,
              !.smiley = IF game_won(g) THEN "won" ELSE @,
              !.cells = [x \in Cells |->
                            IF is_mine(g.cells[x]) /\ ~is_flag(g.cells[x]) /\ ~game_won(g)
                            THEN show(g.cells[x])
                            ELSE g.cells[x]]]

\* left_clicked without its return on a visible or flagged cell
click_whatever(g, b) ==
    LET shown == [g.cells EXCEPT ![b] = show(@)]
        g1 == IF is_mine(shown[b])
              THEN game_over([g EXCEPT !.cells = shown, !.smiley = "lost"])
              ELSE IF shown[b].value = 0
              THEN [g EXCEPT !.cells = OpenAround(shown, <<b>>, <<>>)]
              ELSE [g EXCEPT !.cells = shown]
    IN  IF game_won(g1) THEN game_over([g1 EXCEPT !.smiley = "won"]) ELSE g1

\* Minesweeper.left_clicked from `if button.is_visible() or button.is_flag()`
\* on, in game g
click(g, b) ==
    IF is_visible(g.cells[b]) \/ is_flag(g.cells[b]) THEN g
    ELSE LET shown == [g.cells EXCEPT ![b] = show(@)]
             g1 == IF is_mine(shown[b])
                   THEN game_over([g EXCEPT !.cells = shown, !.smiley = "lost"])
                   ELSE IF shown[b].value = 0
                   THEN [g EXCEPT !.cells = OpenAround(shown, <<b>>, <<>>)]
                   ELSE [g EXCEPT !.cells = shown]
         IN  IF game_won(g1) THEN game_over([g1 EXCEPT !.smiley = "won"]) ELSE g1

\* a handler of the game was called and left the game as g
GameCall(op, arg, g) ==
    /\ game' = g
    /\ last' = [op |-> op, arg |-> arg, pre |-> game]
    /\ UNCHANGED <<variables, constraints, csp, held>>
    /\ UNCHANGED btvars

\* Minesweeper.left_clicked
left_clicked ==
    /\ ~game.done
    /\ \E b \in Cells :
           IF game.first_click
           THEN \E board \in place_mines(game.cells, b) :
                    GameCall("left_clicked", b,
                             click([game EXCEPT !.cells = board, !.first_click = FALSE], b))
           ELSE GameCall("left_clicked", b, click(game, b))

\* Minesweeper.right_clicked
right_clicked ==
    /\ ~game.done
    /\ \E b \in Cells :
           IF is_visible(game.cells[b]) THEN GameCall("right_clicked", b, game)
           ELSE LET n  == IF is_flag(game.cells[b]) THEN game.flags - 1 ELSE game.flags + 1
                    g1 == [game EXCEPT !.cells[b] = flag(@),
                                       !.flags = n,
                                       !.mines_left = IF n < game.num_mines
                                                      THEN game.num_mines - n ELSE 0]
                IN  GameCall("right_clicked", b,
                             IF game_won(g1) THEN game_over([g1 EXCEPT !.smiley = "won"])
                             ELSE g1)

\* Minesweeper.__init__ and init_board: a board of hidden cells without mines
NewGame ==
    [cells |-> [x \in Cells |-> NewButton],
     num_mines |-> NumMines,
     mines_left |-> NumMines,
     flags |-> 0,
     done |-> FALSE,
     first_click |-> TRUE,
     smiley |-> "default"]

InitGame ==
    /\ game = NewGame
    /\ last = [op |-> "__init__", arg |-> None, pre |-> NewGame]
    /\ variables = <<>>
    /\ constraints = <<>>
    /\ csp = NewCSP
    /\ held = <<>>
    /\ BT_init

NextGame ==
    \/ left_clicked
    \/ right_clicked

SpecGame == InitGame /\ [][NextGame]_vars

\* C19: game_won() returns True exactly when every cell is visible or is a
\* flagged mine, and the number of flags is the number of mines of the game.
C19_WonIffClearedAndFlagged ==
    game_won(game) <=>
        /\ \A x \in Cells :
               \/ is_visible(game.cells[x])
               \/ is_mine(game.cells[x]) /\ is_flag(game.cells[x])
        /\ game.flags = game.num_mines

-----------------------------------------------------------------------------
(* bt_recurse gives back what it found. *)

\* the pass of the loop that is about to run gets from the propagator the
\* pairs it newly pruned, each once, and nothing else has changed
PropagatorReturnsItsPrunings ==
    (pc = "loop" /\ Top.vals # <<>>) =>
        LET vs1 == [variables EXCEPT ![Top.var] = assign(@, Head(Top.vals))]
            r   == propagator(vs1, csp, constraints, Top.var)
            pruned == {pr \in (DOMAIN vs1) \X (0 .. MaxVal) :
                          /\ pr[2] \in Range(vs1[pr[1]].dom)
                          /\ vs1[pr[1]].curdom[value_index(vs1[pr[1]], pr[2])]
                          /\ ~r.vs[pr[1]].curdom[value_index(vs1[pr[1]], pr[2])]}
        IN  /\ Range(r.prunings) = pruned
            /\ Len(r.prunings) = Cardinality(pruned)
            /\ \A v \in DOMAIN vs1 :
                   /\ r.vs[v].dom = vs1[v].dom
                   /\ r.vs[v].assignedValue = vs1[v].assignedValue
                   /\ \A i \in DOMAIN vs1[v].curdom :
                          r.vs[v].curdom[i] => vs1[v].curdom[i]

\* C20: when a bt_recurse call returns False, every variable's assigned
\* value and current-domain flags, and the set of variables in the list of
\* unassigned variables, are as they were when the call was entered.
C20_FalseReturnRestoresEntry ==
    [][(pc = "loop" /\ Top.vals = <<>> /\ pc' = "return") =>
          /\ ~status'
          /\ variables' = Top.entry.variables
          /\ Range(unasgn_vars') = Range(Top.entry.unasgn)]_vars

\* a call below the outermost one has returned False after its passes pruned
\* values and assigned its variable
C20_Witness ==
    /\ pc = "return" /\ ~status
    /\ stack # <<>>
    /\ nDecisions > Len(stack)
    /\ nPrunings > Len(prunings)

-----------------------------------------------------------------------------
(* The order in which restoreValues gives the pruned values back. *)

\* restoreValues that walks the list from its end
RECURSIVE restoreValuesSteps_backwards(_, _)
restoreValuesSteps_backwards(vs, prs) ==
    IF prs = <<>> THEN <<>>
    ELSE LET pr  == prs[Len(prs)]
             vs1 == [vs EXCEPT ![pr[1]] = unprune_value(@, pr[2])]
         IN  <<vs1>> \o restoreValuesSteps_backwards(vs1, SubSeq(prs, 1, Len(prs) - 1))

\* BT.restoreValues, pass by pass: the variables after each unprune_value of
\* the loop
RECURSIVE restoreValuesSteps(_, _)
restoreValuesSteps(vs, prs) ==
    IF prs = <<>> THEN <<>>
    ELSE LET vs1 == [vs EXCEPT ![Head(prs)[1]] = unprune_value(@, Head(prs)[2])]
         IN  <<vs1>> \o restoreValuesSteps(vs1, Tail(prs))

\* in the k-th pass of restoreValues(prs), started from vs, the pair pr is
\* the one given back: its flag is the only thing that changes, to true
GivenBackAt(vs, prs, k, pr) ==
    LET steps  == restoreValuesSteps(vs, prs)
        before == IF k = 1 THEN vs ELSE steps[k - 1]
    IN  /\ ~in_cur_domain_flag_only(before[pr[1]], pr[2])
        /\ in_cur_domain_flag_only(steps[k][pr[1]], pr[2])
        /\ steps[k] = [before EXCEPT ![pr[1]] = unprune_value(@, pr[2])]

\* the list of prunings a restoreValues call is about to be given, if any
ToRestore ==
    IF pc = "undo" THEN Top.prunings
    ELSE IF pc = "finish" THEN prunings
    ELSE <<>>

\* C21 as stated: the values pruned by one propagator call are given back in
\* the reverse of the order in which they were pruned.
C21_RestoredInReverseOrder ==
    \A k \in 1 .. Len(ToRestore) :
        GivenBackAt(variables, ToRestore, k, ToRestore[Len(ToRestore) - k + 1])

\* C21: the values pruned by one propagator call are given back, when that
\* step is undone, in the order in which they were pruned, the first pruned
\* first; the variables are then as restoreValues leaves them.
C21_RestoredInPruningOrder ==
    /\ \A k \in 1 .. Len(ToRestore) :
           GivenBackAt(variables, ToRestore, k, ToRestore[k])
    /\ ToRestore # <<>> =>
           restoreValuesSteps(variables, ToRestore)[Len(ToRestore)]
               = restoreValues(variables, ToRestore)

\* a step of the search that pruned several values is about to be undone
C21_Witness ==
    /\ pc = "undo"
    /\ Len(Top.prunings) >= 2
    /\ Top.prunings[1] # Top.prunings[Len(Top.prunings)]

-----------------------------------------------------------------------------
(* A contradiction found by the root propagation. *)

\* the root propagator call of the search under way reported failure
RootFailed ==
    /\ pc # "idle"
    /\ printed # <<>>
    /\ printed[1] = "contradiction at root"

\* C22: if the root propagator call of bt_search reports failure, bt_recurse
\* is never entered and no variable is ever assigned (nDecisions stays 0),
\* every root pruning is unpruned, and the search ends in failure.
C22_RootFailure ==
    RootFailed =>
        /\ pc \in {"finish", "done"}
        /\ stack = <<>>
        /\ nDecisions = 0
        /\ \A v \in Range(csp.vars) : ~is_assigned(variables[v])
        /\ ~status
        /\ Done =>
               /\ \A k \in 1 .. Len(prunings) :
                      in_cur_domain(variables[prunings[k][1]], prunings[k][2])
               /\ printed = <<"contradiction at root", "unsolved", "bt_search finished">>

\* a search has ended after its root propagation pruned values and failed
C22_Witness ==
    /\ RootFailed
    /\ Done
    /\ Len(prunings) >= 2

-----------------------------------------------------------------------------
(* The choice of extractMRVvar. *)

\* position of x in list, the first if there are several
RECURSIVE PosIn(_, _)
PosIn(list, x) == IF Head(list) = x THEN 1 ELSE 1 + PosIn(Tail(list), x)

\* var is, among the variables of list, one of smallest cur_domain_size(),
\* and the first of them in the list
FirstSmallest(vs, list, var) ==
    /\ var \in Range(list)
    /\ \A k \in 1 .. Len(list) :
           /\ cur_domain_size(vs[var]) <= cur_domain_size(vs[list[k]])
           /\ k < PosIn(list, var) =>
                  cur_domain_size(vs[var]) < cur_domain_size(vs[list[k]])

\* C23: extractMRVvar returns, and removes from the unassigned list, a
\* variable whose cur_domain_size() is the smallest among the variables of
\* the list, the first in the list when several have that size; the other
\* variables stay in the list in their order.
C23_ExtractMRV ==
    [][(pc = "call" /\ pc' = "loop") =>
          /\ FirstSmallest(variables, unasgn_vars, Top'.var)
          /\ unasgn_vars' = SelectSeq(unasgn_vars, LAMBDA x : x # Top'.var)
          /\ Len(unasgn_vars') = Len(unasgn_vars) - 1]_vars

\* a variable has been extracted that shares the smallest size with another
\* one and was neither the first nor the only other variable of the list
C23_Witness ==
    /\ pc = "loop"
    /\ Len(Top.entry.unasgn) >= 3
    /\ Top.entry.unasgn[1] # Top.var
    /\ \E x \in Range(Top.entry.unasgn) \ {Top.var} :
           cur_domain_size(Top.entry.variables[x])
               = cur_domain_size(Top.entry.variables[Top.var])
    /\ unasgn_vars = SelectSeq(Top.entry.unasgn, LAMBDA x : x # Top.var)

-----------------------------------------------------------------------------
(* Ties between variables of smallest size, over a whole search. *)

\* the unassigned variables of list in the order in which the CSP got them
InInsertionOrder(list) == SelectSeq(csp.vars, LAMBDA x : x \in Range(list))

\* C24 as stated: at every variable selection of a bt_search run, the
\* variable selected is, among the unassigned variables of smallest
\* current-domain size, the earliest in the CSP's insertion order.
C24_TiesByInsertionOrder ==
    \A k \in 1 .. Len(stack) :
        FirstSmallest(stack[k].entry.variables,
                      InInsertionOrder(stack[k].entry.unasgn), stack[k].var)

\* C24: at every variable selection of a bt_search run, the variable
\* selected is, among the unassigned variables of smallest current-domain
\* size, the earliest in the list of unassigned variables as it stands at
\* that selection; the list is in insertion order at the outermost call.
C24_TiesByListOrder ==
    \A k \in 1 .. Len(stack) :
        /\ FirstSmallest(stack[k].entry.variables, stack[k].entry.unasgn, stack[k].var)
        /\ k = 1 => stack[k].entry.unasgn = InInsertionOrder(stack[k].entry.unasgn)

\* a selection after backtracking, from a list that is no longer in
\* insertion order, between variables of the same smallest size
C24_Witness ==
    /\ pc = "loop"
    /\ Len(stack) >= 2
    /\ Top.entry.unasgn # InInsertionOrder(Top.entry.unasgn)
    /\ \E x \in Range(Top.entry.unasgn) \ {Top.var} :
           cur_domain_size(Top.entry.variables[x])
               = cur_domain_size(Top.entry.variables[Top.var])

-----------------------------------------------------------------------------
(* The choice of extractMRVvar_MS. *)

\* the positions of the unassigned list whose variable has one value left
ForcedPositions ==
    {i \in 1 .. Len(unasgn_vars) : cur_domain_size(variables[unasgn_vars[i]]) = 1}

\* the unassigned variables of the scope of the k-th constraint of the CSP
UnassignedInScope(k) ==
    {x \in Range(constraints[csp.cons[k]].scope) : ~is_assigned(variables[x])}

\* the positions in csp.cons of the constraints with exactly one unassigned
\* scope variable
SolePositions ==
    {k \in 1 .. Len(csp.cons) : Cardinality(UnassignedInScope(k)) = 1}

\* the least number of a non-empty set of numbers
Least(S) == CHOOSE k \in S : \A j \in S : k <= j

\* C25: extractMRVvar_MS returns the first variable of the unassigned list
\* whose current-domain size is 1 if there is one; otherwise the unassigned
\* scope variable of the first constraint, in CSP constraint order, that has
\* exactly one; otherwise None.  A variable returned was in the list and is
\* removed from it; when None is returned the list is unchanged.
C25_ExtractMS ==
    [][(pc = "call" /\ unasgn_vars # <<>>) =>
          LET Extracted(v) ==
                  /\ pc' = "loop"
                  /\ Top'.var = v
                  /\ v \in Range(unasgn_vars)
                  /\ unasgn_vars' = SelectSeq(unasgn_vars, LAMBDA x : x # v)
                  /\ Len(unasgn_vars') = Len(unasgn_vars) - 1
          IN  IF ForcedPositions # {}
              THEN Extracted(unasgn_vars[Least(ForcedPositions)])
              ELSE IF SolePositions # {}
              THEN \E v \in UnassignedInScope(Least(SolePositions)) : Extracted(v)
              ELSE /\ pc' = "return"
                   /\ stack' = stack
                   /\ unasgn_vars' = unasgn_vars]_vars

\* the variable extracted has several values left, was not the first of the
\* list, and is the one unassigned variable of a constraint that is not the
\* first of the CSP
C25_Witness ==
    /\ pc = "loop"
    /\ unasgn_vars = SelectSeq(Top.entry.unasgn, LAMBDA x : x # Top.var)
    /\ cur_domain_size(Top.entry.variables[Top.var]) > 1
    /\ Top.entry.unasgn[1] # Top.var
    /\ Top.var \notin Range(constraints[csp.cons[1]].scope)

-----------------------------------------------------------------------------
(* bt_search called on variables left in any state, and called again on what  *)
(* the first call left.                                                       *)

\* a CSP on which a call below the outermost one fails: X, Y and Z over 0, 1,
\* ...; X is free, and no pair satisfies both constraints over Y and Z
InnerFails ==
    BuildProblem(<<BTDomain, BTDomain, BTDomain>>,
                 <<[scope |-> <<2, 3>>, tuples |-> <<<<0, 0>>, <<1, 1>>>>],
                   [scope |-> <<2, 3>>, tuples |-> <<<<0, 1>>, <<1, 0>>>>]>>)

\* the variables vs after earlier use: variable x holds f[x], or nothing
\* where f[x] is None, and its flags are g[x]
LeftBefore(vs, f, g) ==
    [x \in DOMAIN vs |-> [vs[x] EXCEPT !.assignedValue = f[x], !.curdom = g[x]]]

\* the outcome of a bt_search call that has ended
Outcome ==
    [status |-> status, variables |-> variables, nDecisions |-> nDecisions,
     nPrunings |-> nPrunings, printed |-> printed]

\* bt_search called once more on the BT object, up to the branch on the
\* status of the root propagator call
bt_search_again ==
    /\ pc = "done"
    /\ last.op = "none"
    /\ last' = [op |-> "bt_search", arg |-> None, pre |-> Outcome]
    /\ LET vs0 == restore_all_variable_domains(variables, csp)
           r   == propagator(vs0, csp, constraints, None)
       IN  /\ variables' = r.vs
           /\ unasgn_vars' = UnassignedOf(vs0, csp)
           /\ nDecisions' = 0
           /\ nPrunings' = Len(r.prunings)
           /\ prunings' = r.prunings
           /\ status' = r.ok
           /\ printed' = IF r.ok THEN <<>> ELSE <<"contradiction at root">>
           /\ pc' = IF r.ok THEN "call" ELSE "finish"
    /\ stack' = <<>>
    /\ returned' = None
    /\ UNCHANGED <<constraints, csp, held, game>>

\* one of two CSPs whose variables earlier use has left in any state, and a
\* new BT object
InitTwice ==
    /\ \E pb \in {OneFails, InnerFails} :
           \E f \in [DOMAIN pb.variables -> Range(BTDomain) \cup {None}],
              g \in [DOMAIN pb.variables -> [1 .. DomSize -> BOOLEAN]] :
               /\ variables = LeftBefore(pb.variables, f, g)
               /\ constraints = pb.constraints
               /\ csp = pb.csp
    /\ last = [op |-> "none", arg |-> None, pre |-> None]
    /\ BT_init
    /\ Alone

NextTwice ==
    \/ bt_search_begin
    \/ bt_recurse_all_assigned
    \/ bt_recurse_extract
    \/ bt_recurse_try
    \/ bt_recurse_undo
    \/ bt_recurse_exhausted
    \/ bt_recurse_inner_true
    \/ bt_recurse_inner_false
    \/ bt_search_recursed
    \/ bt_search_end
    \/ bt_search_again

SpecTwice == InitTwice /\ [][NextTwice]_vars

\* the variables of the CSP as they are constructed: unassigned, every flag
\* set
FreshVariables ==
    [x \in DOMAIN variables |-> NewVariable(variables[x].dom)]

\* the root propagator call of a bt_search has just returned
AfterRootCall ==
    \/ pc = "call" /\ stack = <<>>
    \/ pc = "finish" /\ RootFailed

\* C26: bt_search does not depend on the variable state left before the
\* call.  Whatever the assignments and flags were, the root propagator call
\* leaves what it leaves when given unassigned variables with every flag set,
\* the list of unassigned variables is the list of the CSP's variables and
\* the counters are those of that call alone; and a second bt_search on the
\* same CSP ends with the outcome, the variables and the counters of the
\* first.
C26_IndependentOfPriorState ==
    /\ AfterRootCall =>
           LET r == propagator(FreshVariables, csp, constraints, None)
           IN  /\ variables = r.vs
               /\ status = r.ok
               /\ prunings = r.prunings
               /\ unasgn_vars = csp.vars
               /\ nDecisions = 0
               /\ nPrunings = Len(r.prunings)
    /\ (Done /\ last.op = "bt_search") => Outcome = last.pre

\* a second search has ended, after decisions and prunings, on variables
\* that the first search had been given assigned and pruned and had left
\* assigned
C26_Witness ==
    /\ Done /\ last.op = "bt_search"
    /\ nDecisions > 1
    /\ nPrunings > 0
    /\ \E x \in CspVars : is_assigned(last.pre.variables[x])

-----------------------------------------------------------------------------
(* The search stops at the first full assignment. *)

\* a bt_recurse call of the search under way has found the list of
\* unassigned variables empty
FoundFull ==
    /\ status
    /\ pc \in {"return", "finish", "done"}

\* C27: once a bt_recurse call finds the unassigned list empty, no later step
\* of that bt_search invocation assigns or unassigns a variable or tries a
\* further value: the full assignment present at that moment is the one left
\* in the variables when bt_search returns.
C27_StopsAtFirstFullAssignment ==
    [][FoundFull =>
          /\ \A x \in CspVars : is_assigned(variables[x])
          /\ FoundFull'
          /\ Assignment' = Assignment
          /\ nDecisions' = nDecisions
          /\ unasgn_vars' = <<>>]_vars

\* bt_search is about to end with a full assignment found after values had
\* been tried and undone, with calls nested three deep
C27_Witness ==
    /\ pc = "finish"
    /\ status
    /\ Len(csp.vars) = 3
    /\ nDecisions > Len(csp.vars)

-----------------------------------------------------------------------------
(* The depth of the recursion. *)

\* the number of bt_recurse calls that have been entered and have not
\* returned: those that have extracted their variable, and the one just
\* entered, if any
Depth == Len(stack) + (IF pc = "call" THEN 1 ELSE 0)

\* C28: during any bt_search the nesting depth of bt_recurse calls never
\* exceeds the number of variables of the CSP plus one.
C28_DepthBound == Depth <= Len(csp.vars) + 1

\* the call that finds every variable assigned is entered below one call for
\* each of the CSP's variables, after some value had to be undone
C28_Witness ==
    /\ pc = "call"
    /\ Len(csp.vars) >= 2
    /\ Depth = Len(csp.vars) + 1
    /\ nDecisions > Len(csp.vars)

-----------------------------------------------------------------------------
(* has_support looks at every component of a tuple. *)

\* constraint c has a satisfying tuple with val at position i of which every
\* component, the one at i included, is in the current domain of its scope
\* variable
FullySupported(vs, c, i, val) ==
    \E t \in c.sat_tuples :
        /\ t[i] = val
        /\ \A j \in 1 .. Len(c.scope) : t[j] \in Range(cur_domain(vs[c.scope[j]]))

\* C29: has_support(var, val) is true if and only if some satisfying tuple
\* that has val at var's scope position has every one of its components,
\* var's own included, in the current domain of the corresponding scope
\* variable; so it is false whenever val is not in var's current domain.
C29_SupportNeedsAllComponents ==
    \A i \in 1 .. Len(TheCon.scope), val \in Values :
        /\ has_support(variables, TheCon, TheCon.scope[i], val)
               <=> FullySupported(variables, TheCon, i, val)
        /\ val \notin Range(cur_domain(variables[TheCon.scope[i]]))
               => ~has_support(variables, TheCon, TheCon.scope[i], val)

\* the second variable of a binary constraint is assigned one value, which
\* has a support, while its other value, whose flag is set and which a tuple
\* pairs with a value in the first variable's current domain, has none
C29_Witness ==
    /\ Len(TheCon.scope) = 2
    /\ \E t, u \in TheCon.sat_tuples :
           /\ t[2] # u[2]
           /\ variables[TheCon.scope[2]].assignedValue = t[2]
           /\ in_cur_domain_flag_only(variables[TheCon.scope[2]], u[2])
           /\ u[1] \in Range(cur_domain(variables[TheCon.scope[1]]))
           /\ has_support(variables, TheCon, TheCon.scope[2], t[2])
           /\ ~has_support(variables, TheCon, TheCon.scope[2], u[2])

-----------------------------------------------------------------------------
(* Assignment and pruning of a Variable do not touch each other. *)

\* the values of v's domain whose flag is set, in domain order
FlaggedValues(v) ==
    LET F == {i \in 1 .. Len(v.dom) : v.curdom[i]}
    IN  [k \in 1 .. Cardinality(F) |->
            v.dom[CHOOSE i \in F : Cardinality({j \in F : j <= i}) = k]]

\* the flags of the Variable are what the last call, if it is one of
\* prune_value, unprune_value and restore_curdom, makes of the flags before
\* it, whether the Variable is assigned or not; any other call leaves them
FlagsFollowPruningAlone ==
    LET pre == last.pre
        at(value) == CHOOSE i \in 1 .. Len(pre.dom) :
                         pre.dom[i] = value /\ \A j \in 1 .. (i - 1) : pre.dom[j] # value
    IN  TheVar.curdom =
            IF last.op = "prune_value"
            THEN [i \in DOMAIN pre.curdom |-> pre.curdom[i] /\ i # at(last.arg)]
            ELSE IF last.op = "unprune_value"
            THEN [i \in DOMAIN pre.curdom |-> pre.curdom[i] \/ i = at(last.arg)]
            ELSE IF last.op = "restore_curdom"
            THEN [i \in DOMAIN pre.curdom |-> TRUE]
            ELSE pre.curdom

-----------------------------------------------------------------------------
(* The three views of the current domain of a Variable. *)

\* C31: in every reachable state of a Variable and for every value v, the
\* three views of the current domain agree: in_cur_domain(v) is true if and
\* only if v is an element of cur_domain(), and cur_domain_size() equals the
\* length of cur_domain(); in particular after prune_value(v) on an
\* unassigned variable v is not in cur_domain().
C31_ViewsAgree ==
    /\ \A v \in Values :
           in_cur_domain(TheVar, v) <=> (\E k \in 1 .. Len(cur_domain(TheVar)) :
                                            cur_domain(TheVar)[k] = v)
    /\ cur_domain_size(TheVar) = Len(cur_domain(TheVar))
    /\ (last.op = "prune_value" /\ ~is_assigned(last.pre)) =>
           \A k \in 1 .. Len(cur_domain(TheVar)) : cur_domain(TheVar)[k] # last.arg

\* a value that was in the current domain of an unassigned Variable of three
\* values has just been pruned and one value is left
C31_Witness ==
    /\ last.op = "prune_value"
    /\ ~is_assigned(last.pre)
    /\ in_cur_domain(last.pre, last.arg)
    /\ Len(TheVar.dom) = 3
    /\ cur_domain_size(TheVar) = 1

-----------------------------------------------------------------------------
(* The list of unassigned variables at a selection. *)

\* the variables of the CSP that hold no value
UnassignedNow == {x \in CspVars : ~is_assigned(variables[x])}

\* C32: at every variable selection the unassigned list holds exactly the
\* CSP variables that are unassigned at that moment, each once; the variable
\* chosen is always in the list, and every variable extracted by an
\* enclosing bt_recurse call is assigned.
C32_ListIsTheUnassigned ==
    /\ pc = "call" =>
           /\ \A x \in CspVars :
                  Cardinality({i \in 1 .. Len(unasgn_vars) : unasgn_vars[i] = x})
                      = IF x \in UnassignedNow THEN 1 ELSE 0
           /\ Len(unasgn_vars) = Cardinality(UnassignedNow)
           /\ \A k \in 1 .. Len(stack) : is_assigned(variables[stack[k].var])
    /\ \A k \in 1 .. Len(stack) :
           \E i \in 1 .. Len(stack[k].entry.unasgn) :
               /\ stack[k].entry.unasgn[i] = stack[k].var
               /\ ~is_assigned(stack[k].entry.variables[stack[k].var])

\* a selection is about to be made below an enclosing call, with a variable
\* the caller assigned, a variable an enclosing call assigned and one
\* variable in the list
C32_Witness ==
    /\ pc = "call"
    /\ Len(stack) >= 1
    /\ Len(unasgn_vars) = 1
    /\ \E x \in CspVars : is_assigned(last.pre[x])

-----------------------------------------------------------------------------
(* Termination of bt_search and bt_search_MS, called on a new BT object.       *)

\* the search under way is one of bt_search_MS
InMS == last.op = "bt_search_MS"

\* bt_recurse of bt_search and of bt_search_MS, entered with variables left
recurse_extract == ~InMS /\ bt_recurse_extract
recurse_MS_extract == InMS /\ bt_recurse_MS_extract
recurse_MS_none == InMS /\ bt_recurse_MS_none

\* the last lines of bt_search and of bt_search_MS
search_end == ~InMS /\ bt_search_end
search_MS_end == InMS /\ bt_search_MS_end

\* one of three CSPs, of which the caller has assigned some variables, and a
\* new BT object on which either search is about to be called
InitLive ==
    /\ \/ LoadedMS(OneFails)
       \/ LoadedMS(BothFail)
       \/ LoadedMS(InnerFails)
    /\ last = [op |-> "none", arg |-> None, pre |-> None]
    /\ BT_init
    /\ Alone

NextLive ==
    \/ bt_search_begin
    \/ bt_search_MS_begin
    \/ bt_recurse_all_assigned
    \/ recurse_extract
    \/ recurse_MS_extract
    \/ recurse_MS_none
    \/ bt_recurse_try
    \/ bt_recurse_undo
    \/ bt_recurse_exhausted
    \/ bt_recurse_inner_true
    \/ bt_recurse_inner_false
    \/ bt_search_recursed
    \/ search_end
    \/ search_MS_end

\* the steps of the two searches that call no propagator
NextOwn ==
    \/ bt_recurse_all_assigned
    \/ recurse_extract
    \/ recurse_MS_extract
    \/ recurse_MS_none
    \/ bt_recurse_undo
    \/ bt_recurse_exhausted
    \/ bt_recurse_inner_true
    \/ bt_recurse_inner_false
    \/ bt_search_recursed
    \/ search_end
    \/ search_MS_end

\* the steps that call the propagator, seen from the position of the search:
\* the entry of a search up to the branch on the root call's status, and a
\* pass of the loop of bt_recurse up to the branch on its call's status
PropagatorCallReturns ==
    \/ pc = "idle" /\ pc' \in {"call", "finish"}
    \/ pc = "loop" /\ Top.vals # <<>> /\ pc' \in {"call", "undo"}

\* one thread runs the search: a step that calls no propagator is taken
\* whenever one is possible, and a propagator call that is made returns
SpecLive ==
    /\ InitLive
    /\ [][NextLive]_vars
    /\ WF_vars(NextOwn)
    /\ WF_pc(PropagatorCallReturns)

\* C33: every call of bt_search and of bt_search_MS on a CSP with finitely
\* many variables and finite domains eventually returns, provided every
\* propagator call returns.
C33_SearchReturns == <>Done

\* a bt_search_MS has returned after its root propagation succeeded, its
\* recursion failed and twice as many decisions were made as a domain has
\* values
C33_Witness ==
    /\ Done
    /\ ~status
    /\ ~RootFailed
    /\ nDecisions >= 2 * DomSize
    /\ InMS

-----------------------------------------------------------------------------
(* A left click on a cell that is visible or flagged. *)

\* the last handler called was left_clicked, on a board that had its mines,
\* for a cell that was visible or flagged
ClickedShownOrFlagged ==
    /\ last.op = "left_clicked"
    /\ ~last.pre.first_click
    /\ is_visible(last.pre.cells[last.arg]) \/ is_flag(last.pre.cells[last.arg])

\* C34: once mines are placed, a left click on a cell that is already
\* visible or is flagged does nothing: no cell's visibility changes, the
\* flag count is unchanged and the game is not ended by that click.
C34_ClickOnShownOrFlaggedDoesNothing ==
    ClickedShownOrFlagged =>
        /\ \A x \in Cells : is_visible(game.cells[x]) = is_visible(last.pre.cells[x])
        /\ game.flags = last.pre.flags
        /\ game.done = last.pre.done
        /\ game = last.pre

\* the mine, hidden and flagged, was left-clicked while a cell without a mine
\* was still hidden
C34_Witness ==
    /\ ClickedShownOrFlagged
    /\ is_mine(last.pre.cells[last.arg])
    /\ is_flag(last.pre.cells[last.arg])
    /\ ~is_visible(last.pre.cells[last.arg])
    /\ ~game_won(last.pre)

=============================================================================
